---- MODULE Spec2Model ----
(***************************************************************************)
(* CouchFinder: the polling loop (main.py run_monitor), the seen-set store *)
(* (database.py), the two platform adapters (scrapers/craigslist.py,       *)
(* scrapers/facebook.py) and the Discord dispatcher (notifier.py).         *)
(*                                                                         *)
(* Time is counted in ticks of TICK_HOURS hours.                             *)
(* A listing id is the pair                                                *)
(* <<prefix, native number>> ("cl_123" is <<"cl", 123>>).  A result page   *)
(* is the sequence of cards the site shows for one search term, in page    *)
(* order.                                                                  *)
(***************************************************************************)
EXTENDS Integers, Sequences, FiniteSets, TLC

VARIABLES
  site,           \* [platform -> [term -> page]]: what the two sites show now
  next_native,    \* the native number the next posting gets
  webhooks,       \* config: which of the three webhook URLs are non-empty
  store,          \* the listings table: set of rows, id is the primary key
  now,            \* datetime.now(), in ticks
  running,        \* main.running
  pc,             \* position of the process
  scrapers,       \* run_monitor: the scrapers list, in scrape order
  check_count,    \* run_monitor: check_count
  last_cleanup,   \* run_monitor: last_cleanup
  total_new,      \* run_monitor: total_new
  si,             \* run_monitor: index of the scraper of the for loop
  seen_ids,       \* run_monitor: seen_ids
  new_listings,   \* run_monitor: new_listings
  sent,           \* send_batch: sent
  stored,         \* run_monitor: stored
  ti,             \* get_listings: index of the search term of the for loop
  all_listings,   \* get_listings: all_listings
  page_seen_ids,  \* get_listings: page_seen_ids
  fetched,        \* get_listings: per term, the page it got and what parsing said
  sb_listings,    \* send_batch: the listings argument
  by_platform,    \* send_batch: the platforms of by_platform, in dict order
  pi,             \* send_batch: index of the platform of the outer loop
  bi,             \* send_batch: i of the inner loop (offset of the batch)
  http,           \* send_batch: the POSTs and sleeps of the call so far
  dispatched,     \* ids for which a send_batch call has returned
  persisted,      \* ids store_listings has inserted after their dispatch
  arg,            \* input of a directly called function
  ret,            \* its result
  announced,      \* number of calls of send_error_message
  closed,         \* the scrapers close() was called on, in order
  slept,          \* run_monitor: one-second sleeps of the wait so far
  elapsed,        \* wait_for_manual_login: elapsed
  self_page,      \* FacebookScraper: where self.page is and what it shows
  _headless,      \* FacebookScraper: self._headless
  _initialized,   \* FacebookScraper: self._initialized
  context,        \* FacebookScraper: self.context, by the mode of its browser
  ctx_log,        \* the calls made on a browser context of Facebook, in order
  session,        \* the state of the Facebook session in the words of the design
  close_raised,   \* the scrapers whose close() raised
  raised,         \* run_monitor: the KeyboardInterrupt and SystemExit raised
  playwright,     \* the Playwright handle: its state, who started and stopped it
  cl_context      \* CraigslistScraper: self.context

vars == <<site, next_native, webhooks, store, now, running, pc, scrapers,
          check_count, last_cleanup, total_new, si, seen_ids, new_listings,
          sent, stored, ti, all_listings, page_seen_ids, fetched, sb_listings,
          by_platform, pi, bi, http, dispatched, persisted, arg, ret,
          announced, closed, slept, elapsed, self_page, _headless,
          _initialized,
          context, ctx_log, session, close_raised, raised, playwright,
          cl_context>>

-----------------------------------------------------------------------------
(* Bounds *)

MaxPosts == 2
MaxTime == 2
MaxChecks == 2
NumTerms == 2
MaxNative == 3
MaxPage == 3
MaxList == 2
MaxListings == 23
MaxHalfDays == 4

(* Program constants *)

MAX_EMBEDS_PER_MESSAGE == 10
CLEANUP_INTERVAL_HOURS == 24
RETENTION_DAYS == 7
CHECK_INTERVAL_SECONDS == 60
timeout_minutes == 5
check_interval == 10
timeout_seconds == timeout_minutes * 60
TICK_HOURS == CLEANUP_INTERVAL_HOURS \div 2
Hours(t) == t * TICK_HOURS

(* the ticks of a retention window and one more *)
LONG_TICKS == (RETENTION_DAYS * 24) \div TICK_HOURS + 1

Platforms == {"facebook", "craigslist"}
SEARCH_TERMS == 1..NumTerms
Prefix(platform) == IF platform = "craigslist" THEN "cl" ELSE "fb"

Ids(listings) == {listings[k].id : k \in 1..Len(listings)}

-----------------------------------------------------------------------------
(* database.py *)

get_seen_ids(rows, platform) == {r.id : r \in {x \in rows : x.platform = platform}}

(* INSERT OR REPLACE in place of INSERT *)
RECURSIVE StoreLoopReplace(_, _, _, _, _)
StoreLoopReplace(rows, listings, k, t, n) ==
  IF k > Len(listings) THEN [rows |-> rows, stored |-> n]
  ELSE StoreLoopReplace({r \in rows : r.id # listings[k].id}
                          \cup {[id |-> listings[k].id,
                                  platform |-> listings[k].platform,
                                  first_seen |-> t]},
                        listings, k + 1, t, n + 1)

RECURSIVE StoreLoop(_, _, _, _, _)
StoreLoop(rows, listings, k, t, n) ==
  IF k > Len(listings) THEN [rows |-> rows, stored |-> n]
  ELSE IF \E r \in rows : r.id = listings[k].id
       THEN StoreLoop(rows, listings, k + 1, t, n)
       ELSE StoreLoop(rows \cup {[id |-> listings[k].id,
                                  platform |-> listings[k].platform,
                                  first_seen |-> t]},
                      listings, k + 1, t, n + 1)

(* the table emptied and filled again with the listings of the call *)
store_listings_rebuild(rows, listings, t) ==
  IF listings = <<>> THEN [rows |-> rows, stored |-> 0]
  ELSE StoreLoop({}, listings, 1, t, 0)

store_listings(rows, listings, t) ==
  IF listings = <<>> THEN [rows |-> rows, stored |-> 0]
  ELSE StoreLoop(rows, listings, 1, t, 0)

(* rows as old as the cutoff deleted too *)
cleanup_old_listings_le(rows, t, days) ==
  LET cutoff == Hours(t) - days * 24
      old == {r \in rows : Hours(r.first_seen) <= cutoff}
  IN [rows |-> rows \ old, count |-> Cardinality(old)]

cleanup_old_listings(rows, t, days) ==
  LET cutoff == Hours(t) - days * 24
      old == {r \in rows : Hours(r.first_seen) < cutoff}
  IN [rows |-> rows \ old, count |-> Cardinality(old)]

-----------------------------------------------------------------------------
(* scrapers/craigslist.py, scrapers/facebook.py *)

Listing(platform, card) == [id |-> <<Prefix(platform), card.n>>, platform |-> platform]

(* "continue" in place of "break" at a known listing *)
RECURSIVE CLParseLoopNoBreak(_, _, _, _)
CLParseLoopNoBreak(cards, db_seen_ids, k, listings) ==
  IF k > Len(cards) THEN [listings |-> listings, early_stopped |-> FALSE]
  ELSE IF ~cards[k].link \/ cards[k].bad \/ <<"cl", cards[k].n>> \in db_seen_ids
       THEN CLParseLoopNoBreak(cards, db_seen_ids, k + 1, listings)
  ELSE CLParseLoopNoBreak(cards, db_seen_ids, k + 1,
                          Append(listings, Listing("craigslist", cards[k])))

(* the exception of one card ends the loop over the cards *)
RECURSIVE CLParseLoopAbort(_, _, _, _)
CLParseLoopAbort(cards, db_seen_ids, k, listings) ==
  IF k > Len(cards) THEN [listings |-> listings, early_stopped |-> FALSE]
  ELSE IF ~cards[k].link THEN CLParseLoopAbort(cards, db_seen_ids, k + 1, listings)
  ELSE IF <<"cl", cards[k].n>> \in db_seen_ids
       THEN [listings |-> listings, early_stopped |-> TRUE]
  ELSE IF cards[k].bad THEN [listings |-> listings, early_stopped |-> FALSE]
  ELSE CLParseLoopAbort(cards, db_seen_ids, k + 1,
                        Append(listings, Listing("craigslist", cards[k])))

RECURSIVE CLParseLoop(_, _, _, _)
CLParseLoop(cards, db_seen_ids, k, listings) ==
  IF k > Len(cards) THEN [listings |-> listings, early_stopped |-> FALSE]
  ELSE IF ~cards[k].link THEN CLParseLoop(cards, db_seen_ids, k + 1, listings)
  ELSE IF <<"cl", cards[k].n>> \in db_seen_ids
       THEN [listings |-> listings, early_stopped |-> TRUE]
  ELSE IF cards[k].bad THEN CLParseLoop(cards, db_seen_ids, k + 1, listings)
  ELSE CLParseLoop(cards, db_seen_ids, k + 1,
                   Append(listings, Listing("craigslist", cards[k])))

_parse_listings_from_html(cards, db_seen_ids) == CLParseLoop(cards, db_seen_ids, 1, <<>>)

(* a known id skipped instead of ending the scan *)
RECURSIVE FBParseLoopNoBreak(_, _, _, _, _)
FBParseLoopNoBreak(links, db_seen_ids, k, listings, inpage) ==
  IF k > Len(links) THEN [listings |-> listings, early_stopped |-> FALSE]
  ELSE IF <<"fb", links[k].n>> \in inpage \cup db_seen_ids
       THEN FBParseLoopNoBreak(links, db_seen_ids, k + 1, listings, inpage)
  ELSE IF links[k].bad \/ ~links[k].kw
       THEN FBParseLoopNoBreak(links, db_seen_ids, k + 1, listings,
                               inpage \cup {<<"fb", links[k].n>>})
  ELSE FBParseLoopNoBreak(links, db_seen_ids, k + 1,
                          Append(listings, Listing("facebook", links[k])),
                          inpage \cup {<<"fb", links[k].n>>})

RECURSIVE FBParseLoop(_, _, _, _, _)
FBParseLoop(links, db_seen_ids, k, listings, inpage) ==
  IF k > Len(links) THEN [listings |-> listings, early_stopped |-> FALSE]
  ELSE IF <<"fb", links[k].n>> \in inpage
       THEN FBParseLoop(links, db_seen_ids, k + 1, listings, inpage)
  ELSE IF <<"fb", links[k].n>> \in db_seen_ids
       THEN [listings |-> listings, early_stopped |-> TRUE]
  ELSE IF links[k].bad \/ ~links[k].kw
       THEN FBParseLoop(links, db_seen_ids, k + 1, listings,
                        inpage \cup {<<"fb", links[k].n>>})
  ELSE FBParseLoop(links, db_seen_ids, k + 1,
                   Append(listings, Listing("facebook", links[k])),
                   inpage \cup {<<"fb", links[k].n>>})

_parse_listings(links, db_seen_ids) == FBParseLoop(links, db_seen_ids, 1, <<>>, {})

Parse(platform, page, db_seen_ids) ==
  IF platform = "craigslist" THEN _parse_listings_from_html(page, db_seen_ids)
  ELSE _parse_listings(page, db_seen_ids)

(* the membership test of the cross-term dedupe left out *)
RECURSIVE DedupeNone(_, _, _)
DedupeNone(acc, listings, k) ==
  IF k > Len(listings) THEN acc
  ELSE DedupeNone([ids |-> acc.ids \cup {listings[k].id},
                   all |-> Append(acc.all, listings[k])], listings, k + 1)

RECURSIVE Dedupe(_, _, _)
Dedupe(acc, listings, k) ==
  IF k > Len(listings) THEN acc
  ELSE IF listings[k].id \in acc.ids THEN Dedupe(acc, listings, k + 1)
  ELSE Dedupe([ids |-> acc.ids \cup {listings[k].id},
               all |-> Append(acc.all, listings[k])], listings, k + 1)

-----------------------------------------------------------------------------
(* notifier.py *)

(* the other platform's webhook taken when the own one and the default are unset *)
_get_webhook_url_any(platform) ==
  IF platform = "craigslist" /\ webhooks.craigslist THEN "wh_craigslist"
  ELSE IF platform = "facebook" /\ webhooks.facebook THEN "wh_facebook"
  ELSE IF webhooks.default THEN "wh_default"
  ELSE IF webhooks.craigslist THEN "wh_craigslist"
  ELSE IF webhooks.facebook THEN "wh_facebook"
  ELSE ""

_get_webhook_url(platform) ==
  IF platform = "craigslist" /\ webhooks.craigslist THEN "wh_craigslist"
  ELSE IF platform = "facebook" /\ webhooks.facebook THEN "wh_facebook"
  ELSE IF webhooks.default THEN "wh_default"
  ELSE ""

RECURSIVE GroupKeys(_, _, _)
GroupKeys(listings, k, keys) ==
  IF k > Len(listings) THEN keys
  ELSE IF \E j \in 1..Len(keys) : keys[j] = listings[k].platform
       THEN GroupKeys(listings, k + 1, keys)
       ELSE GroupKeys(listings, k + 1, Append(keys, listings[k].platform))

PlatformListings(listings, platform) ==
  SelectSeq(listings, LAMBDA l : l.platform = platform)

Min(a, b) == IF a < b THEN a ELSE b

(* the slice one short *)
BatchShort(platform_listings, i) ==
  SubSeq(platform_listings, i + 1,
         Min(i + MAX_EMBEDS_PER_MESSAGE - 1, Len(platform_listings)))

Batch(platform_listings, i) ==
  SubSeq(platform_listings, i + 1, Min(i + MAX_EMBEDS_PER_MESSAGE, Len(platform_listings)))

Embeds(batch) == [k \in 1..Len(batch) |-> batch[k].id]

-----------------------------------------------------------------------------
(* The outcome of sending one batch: the status of the first POST and, after *)
(* a 429, of the retry.  "err" is a requests.RequestException; "raise" is a  *)
(* 429 whose retry_after makes time.sleep raise.                             *)

Statuses == {"204", "429", "500", "err"}
Outcomes == {<<s>> : s \in Statuses \ {"429"}}
            \cup {<<"429", s>> : s \in Statuses} \cup {<<"429", "raise">>}

Post(url, batch, status) ==
  [kind |-> "post", url |-> url, embeds |-> Embeds(batch), status |-> status]
Sleep(why) == [kind |-> "sleep", url |-> "", embeds |-> <<>>, status |-> why]

(* the retry sent at once, without the sleep *)
BatchEventsNoSleep(url, batch, r) ==
  IF Len(r) = 1 THEN <<Post(url, batch, r[1])>>
  ELSE IF r[2] = "raise" THEN <<Post(url, batch, "429")>>
  ELSE <<Post(url, batch, "429"), Post(url, batch, r[2])>>

BatchEvents(url, batch, r) ==
  IF Len(r) = 1 THEN <<Post(url, batch, r[1])>>
  ELSE IF r[2] = "raise" THEN <<Post(url, batch, "429")>>
  ELSE <<Post(url, batch, "429"), Sleep("retry_after"), Post(url, batch, r[2])>>

(* the status of the retry not looked at *)
BatchSentAnyRetry(batch, r) ==
  IF r = <<"204">> \/ (Len(r) = 2 /\ r[2] # "raise") THEN Len(batch) ELSE 0

BatchSent(batch, r) ==
  IF r = <<"204">> \/ r = <<"429", "204">> THEN Len(batch) ELSE 0

-----------------------------------------------------------------------------
(* A Python str is the sequence of its characters.                         *)

UPPER ==
  <<"A", "B", "C", "D", "E", "F", "G", "H", "I", "J", "K", "L", "M",
    "N", "O", "P", "Q", "R", "S", "T", "U", "V", "W", "X", "Y", "Z">>
LOWER ==
  <<"a", "b", "c", "d", "e", "f", "g", "h", "i", "j", "k", "l", "m",
    "n", "o", "p", "q", "r", "s", "t", "u", "v", "w", "x", "y", "z">>

(* s.lower() *)
Lower(s) ==
  [i \in 1..Len(s) |->
     IF \E k \in 1..Len(UPPER) : UPPER[k] = s[i]
     THEN LOWER[CHOOSE k \in 1..Len(UPPER) : UPPER[k] = s[i]]
     ELSE s[i]]

(* "t in s" *)
Contains(s, t) ==
  \E i \in 0..(Len(s) - Len(t)) : SubSeq(s, i + 1, i + Len(t)) = t

(* s.startswith(t) *)
StartsWith(s, t) == Len(s) >= Len(t) /\ SubSeq(s, 1, Len(t)) = t

(* the substrings the code looks for *)
S_login == <<"l", "o", "g", "i", "n">>
S_slash_login == <<"/", "l", "o", "g", "i", "n">>
S_checkpoint == <<"c", "h", "e", "c", "k", "p", "o", "i", "n", "t">>
S_marketplace == <<"/", "m", "a", "r", "k", "e", "t", "p", "l", "a", "c", "e">>
S_facebook_com == <<"f", "a", "c", "e", "b", "o", "o", "k", ".", "c", "o", "m">>
S_http == <<"h", "t", "t", "p", ":", "/", "/">>
S_https == <<"h", "t", "t", "p", "s", ":", "/", "/">>
S_data == <<"d", "a", "t", "a", ":">>
S_blank == <<"b", "l", "a", "n", "k">>

-----------------------------------------------------------------------------
(* The locations of the Facebook page.  After a page.goto the browser is   *)
(* where the site sent it; a page shows marketplace items or it does not.  *)

FACEBOOK_MARKETPLACE_URL ==
  <<"h", "t", "t", "p", "s", ":", "/", "/", "w", "w", "w", ".", "f", "a",
    "c", "e", "b", "o", "o", "k", ".", "c", "o", "m", "/", "m", "a", "r",
    "k", "e", "t", "p", "l", "a", "c", "e", "/", "c", "o", "l", "u", "m",
    "b", "u", "s">>
LOGIN_URL ==
  <<"h", "t", "t", "p", "s", ":", "/", "/", "w", "w", "w", ".", "f", "a",
    "c", "e", "b", "o", "o", "k", ".", "c", "o", "m", "/", "l", "o", "g",
    "i", "n">>
LOGIN_NEXT_URL ==
  <<"h", "t", "t", "p", "s", ":", "/", "/", "w", "w", "w", ".", "f", "a",
    "c", "e", "b", "o", "o", "k", ".", "c", "o", "m", "/", "l", "o", "g",
    "i", "n", "/", "?", "n", "e", "x", "t", "=", "%", "2", "F", "m", "a",
    "r", "k", "e", "t", "p", "l", "a", "c", "e">>
CHECKPOINT_URL ==
  <<"h", "t", "t", "p", "s", ":", "/", "/", "w", "w", "w", ".", "f", "a",
    "c", "e", "b", "o", "o", "k", ".", "c", "o", "m", "/", "c", "h", "e",
    "c", "k", "p", "o", "i", "n", "t", "/", "?", "n", "e", "x", "t">>
HOME_URL ==
  <<"h", "t", "t", "p", "s", ":", "/", "/", "w", "w", "w", ".", "f", "a",
    "c", "e", "b", "o", "o", "k", ".", "c", "o", "m", "/">>
BLANK_URL ==
  <<"a", "b", "o", "u", "t", ":", "b", "l", "a", "n", "k">>

Blank == [url |-> BLANK_URL, items |-> FALSE]

Pages ==
  [url : {FACEBOOK_MARKETPLACE_URL, HOME_URL}, items : {TRUE}]
  \cup [url : {HOME_URL, LOGIN_URL, LOGIN_NEXT_URL, CHECKPOINT_URL}, items : {FALSE}]

Sessions == {"Unauthenticated", "ProbingAccess", "AwaitingManualLogin", "Authenticated"}

-----------------------------------------------------------------------------
(* The state after construction *)

NoArg == [fn |-> "none"]

Configs == [default : BOOLEAN, craigslist : BOOLEAN, facebook : BOOLEAN]

(* no Playwright handle: "self.playwright = None" *)
NoHandle == [state |-> "none", owner |-> "none", by |-> "none"]

(* sync_playwright().start() by a scraper *)
Started(who) == [state |-> "started", owner |-> who, by |-> "none"]

Locals ==
  /\ scrapers = <<>> /\ check_count = 0 /\ last_cleanup = 0 /\ total_new = 0
  /\ si = 0 /\ seen_ids = {} /\ new_listings = <<>> /\ sent = 0 /\ stored = 0
  /\ ti = 0 /\ all_listings = <<>> /\ page_seen_ids = {} /\ fetched = <<>>
  /\ sb_listings = <<>> /\ by_platform = <<>> /\ pi = 0 /\ bi = 0 /\ http = <<>>
  /\ dispatched = {} /\ persisted = {}
  /\ announced = 0 /\ closed = <<>> /\ slept = 0 /\ elapsed = 0
  /\ close_raised = {} /\ raised = <<>>
  /\ self_page = Blank /\ _headless = TRUE /\ _initialized = FALSE
  /\ context = "none" /\ ctx_log = <<>> /\ session = "Unauthenticated"
  /\ playwright = NoHandle /\ cl_context = "none"

Init ==
  /\ site = [p \in Platforms |-> [t \in SEARCH_TERMS |-> <<>>]]
  /\ next_native = 1
  /\ webhooks \in {c \in Configs : ~c.default}   \* DISCORD_WEBHOOK_URL unset
  /\ store = {}
  /\ now = 0
  /\ running = TRUE
  /\ pc = "start"
  /\ Locals
  /\ arg = NoArg /\ ret = NoArg

envVars == <<site, next_native, now>>
loopVars == <<scrapers, check_count, last_cleanup, total_new>>
iterVars == <<si, seen_ids, new_listings, stored>>
scrapeVars == <<ti, all_listings, page_seen_ids, fetched>>
sendVars == <<sb_listings, by_platform, pi, bi, http, sent>>
ghostVars == <<dispatched, persisted>>
callVars == <<arg, ret>>
exitVars == <<announced, closed, close_raised, raised>>
waitVars == <<slept, elapsed>>
browserVars ==
  <<self_page, _headless, _initialized, context, ctx_log, session, playwright,
    cl_context>>

-----------------------------------------------------------------------------
(* The environment: the sites and the clock.  The program looks at a site  *)
(* only when it fetches a page of it, so a posting at another moment is    *)
(* the same as one just before the next fetch from that site.  A posting   *)
(* matches one search term or all of them.  The clock ticks between the    *)
(* work of two cycles.                                                     *)

PostTermSets == {{t} : t \in SEARCH_TERMS} \cup {SEARCH_TERMS}

(* a posting is a well-formed one, one whose title has no furniture keyword, *)
(* or one whose markup makes the parser raise                               *)
NewCards ==
  {[n |-> next_native, link |-> TRUE, bad |-> FALSE, kw |-> TRUE],
   [n |-> next_native, link |-> TRUE, bad |-> FALSE, kw |-> FALSE],
   [n |-> next_native, link |-> TRUE, bad |-> TRUE, kw |-> TRUE]}

Posting ==
  /\ pc = "scrape"
  /\ next_native <= MaxPosts
  /\ \E T \in PostTermSets, card \in NewCards :
       site' = [site EXCEPT ![scrapers[si]] =
                  [t \in SEARCH_TERMS |->
                     IF t \in T THEN <<card>> \o @[t] ELSE @[t]]]
  /\ next_native' = next_native + 1
  /\ UNCHANGED <<now, webhooks, store, running, pc>>
  /\ UNCHANGED <<loopVars, iterVars, scrapeVars, sendVars, ghostVars, callVars>>
  /\ UNCHANGED <<exitVars, waitVars, browserVars>>

Tick ==
  /\ pc = "summary"
  /\ now < MaxTime * LONG_TICKS
  /\ now' = now + LONG_TICKS
  /\ UNCHANGED <<site, next_native, webhooks, store, running, pc>>
  /\ UNCHANGED <<loopVars, iterVars, scrapeVars, sendVars, ghostVars, callVars>>
  /\ UNCHANGED <<exitVars, waitVars, browserVars>>

-----------------------------------------------------------------------------
(* main.py *)

(* run_monitor up to the loop *)
Start ==
  /\ pc = "start"
  /\ IF ~webhooks.craigslist /\ ~webhooks.facebook
     THEN pc' = "done" /\ UNCHANGED <<scrapers, last_cleanup>>
     ELSE /\ scrapers' = <<"facebook", "craigslist">>   \* skip_facebook False
          /\ last_cleanup' = now
          /\ pc' = "loop"
  /\ UNCHANGED <<envVars, webhooks, store, running, check_count, total_new>>
  /\ UNCHANGED <<iterVars, scrapeVars, sendVars, ghostVars, callVars>>
  /\ UNCHANGED <<exitVars, waitVars, browserVars>>

(* "while running:" *)
LoopHead ==
  /\ pc = "loop"
  /\ IF running
     THEN /\ check_count < MaxChecks
          /\ check_count' = check_count + 1
          /\ total_new' = 0
          /\ si' = 1
          /\ pc' = "snap"
     ELSE /\ pc' = "teardown"
          /\ UNCHANGED <<check_count, total_new, si>>
  /\ UNCHANGED <<envVars, webhooks, store, running, scrapers, last_cleanup,
                 seen_ids, new_listings, stored>>
  /\ UNCHANGED <<scrapeVars, sendVars, ghostVars, callVars>>
  /\ UNCHANGED <<exitVars, waitVars, browserVars>>

(* the end of one iteration of "for scraper in scrapers": the locals of the *)
(* iteration are dead and are assigned again before their next use          *)
NextScraper ==
  /\ si' = si + 1
  /\ pc' = IF si + 1 > Len(scrapers) THEN "summary" ELSE "snap"
  /\ seen_ids' = {} /\ new_listings' = <<>> /\ stored' = 0
  /\ ti' = 0 /\ all_listings' = <<>> /\ page_seen_ids' = {} /\ fetched' = <<>>
  /\ sb_listings' = <<>> /\ by_platform' = <<>> /\ pi' = 0 /\ bi' = 0
  /\ http' = <<>> /\ sent' = 0

Snapshot ==
  /\ pc = "snap"
  /\ \/ /\ seen_ids' = get_seen_ids(store, scrapers[si])
        /\ pc' = "access"
        /\ UNCHANGED <<si, new_listings, stored, scrapeVars, sendVars>>
     \/ NextScraper                          \* get_seen_ids raises
  /\ UNCHANGED <<envVars, webhooks, store, running>>
  /\ UNCHANGED <<loopVars, ghostVars, callVars>>
  /\ UNCHANGED <<exitVars, waitVars, browserVars>>

(* get_listings: browser start and, for Facebook, the access check *)
GetListingsEnter ==
  /\ pc = "access"
  /\ \/ /\ pc' = "scrape"                    \* access, or manual login in time
        /\ ti' = 1 /\ all_listings' = <<>> /\ page_seen_ids' = {} /\ fetched' = <<>>
        /\ UNCHANGED <<iterVars, sendVars>>
     \/ /\ scrapers[si] = "facebook"         \* wait_for_manual_login is False
        /\ new_listings' = <<>>
        /\ pc' = "got"
        /\ UNCHANGED <<si, seen_ids, stored, scrapeVars, sendVars>>
     \/ NextScraper                          \* the browser cannot be launched
  /\ UNCHANGED <<envVars, webhooks, store, running>>
  /\ UNCHANGED <<loopVars, ghostVars, callVars>>
  /\ UNCHANGED <<exitVars, waitVars, browserVars>>

Fetched(ok, page, r) ==
  [ok |-> ok, page |-> page, listings |-> r.listings, early_stopped |-> r.early_stopped]

NoResult == [listings |-> <<>>, early_stopped |-> FALSE]

(* an exception of one search term ends the loop over the terms *)
ScrapeTermAbort ==
  /\ pc = "scrape"
  /\ LET platform == scrapers[si]
         page == site[platform][ti]
         r == Parse(platform, page, seen_ids)
         d == Dedupe([ids |-> page_seen_ids, all |-> all_listings], r.listings, 1)
     IN \E ok \in BOOLEAN :
          /\ IF ok
             THEN /\ page_seen_ids' = d.ids
                  /\ all_listings' = d.all
                  /\ fetched' = Append(fetched, Fetched(TRUE, page, r))
             ELSE /\ UNCHANGED <<page_seen_ids, all_listings>>
                  /\ fetched' = Append(fetched, Fetched(FALSE, <<>>, NoResult))
          /\ ti' = ti + 1
          /\ IF ti = NumTerms \/ ~ok
             THEN /\ new_listings' = all_listings'
                  /\ pc' = "got"
             ELSE UNCHANGED <<new_listings, pc>>
  /\ UNCHANGED <<envVars, webhooks, store, running, si, seen_ids, stored>>
  /\ UNCHANGED <<loopVars, sendVars, ghostVars, callVars>>
  /\ UNCHANGED <<exitVars, waitVars, browserVars>>

(* get_listings: one search term; after the last one, "return all_listings" *)
ScrapeTerm ==
  /\ pc = "scrape"
  /\ LET platform == scrapers[si]
         page == site[platform][ti]
         r == Parse(platform, page, seen_ids)
         d == Dedupe([ids |-> page_seen_ids, all |-> all_listings], r.listings, 1)
     IN \E ok \in BOOLEAN :
          /\ IF ok
             THEN /\ page_seen_ids' = d.ids
                  /\ all_listings' = d.all
                  /\ fetched' = Append(fetched, Fetched(TRUE, page, r))
             ELSE /\ UNCHANGED <<page_seen_ids, all_listings>>
                  /\ fetched' = Append(fetched, Fetched(FALSE, <<>>, NoResult))
          /\ ti' = ti + 1
          /\ IF ti = NumTerms
             THEN /\ new_listings' = all_listings'
                  /\ pc' = "got"
             ELSE UNCHANGED <<new_listings, pc>>
  /\ UNCHANGED <<envVars, webhooks, store, running, si, seen_ids, stored>>
  /\ UNCHANGED <<loopVars, sendVars, ghostVars, callVars>>
  /\ UNCHANGED <<exitVars, waitVars, browserVars>>

(* send_batch: up to the loop over the platforms *)
SendBatchCall(listings) ==
  /\ sb_listings' = listings
  /\ by_platform' = GroupKeys(listings, 1, <<>>)
  /\ sent' = 0 /\ pi' = 1 /\ bi' = 0 /\ http' = <<>>
  /\ pc' = "send"

(* store_listings called before send_batch *)
GotStoreFirst ==
  /\ pc = "got"
  /\ IF new_listings = <<>>
     THEN NextScraper /\ UNCHANGED store
     ELSE /\ SendBatchCall(new_listings)
          /\ store' = store_listings(store, new_listings, now).rows
          /\ UNCHANGED <<iterVars, scrapeVars>>
  /\ UNCHANGED <<envVars, webhooks, running>>
  /\ UNCHANGED <<loopVars, ghostVars, callVars>>
  /\ UNCHANGED <<exitVars, waitVars, browserVars>>

(* send_batch and store_listings called with the empty list too *)
GotSendEmpty ==
  /\ pc = "got"
  /\ SendBatchCall(new_listings)
  /\ UNCHANGED <<iterVars, scrapeVars>>
  /\ UNCHANGED <<envVars, webhooks, store, running>>
  /\ UNCHANGED <<loopVars, ghostVars, callVars>>
  /\ UNCHANGED <<exitVars, waitVars, browserVars>>

(* "if not new_listings: continue", else the call of send_batch *)
Got ==
  /\ pc = "got"
  /\ IF new_listings = <<>>
     THEN NextScraper
     ELSE /\ SendBatchCall(new_listings)
          /\ UNCHANGED <<iterVars, scrapeVars>>
  /\ UNCHANGED <<envVars, webhooks, store, running>>
  /\ UNCHANGED <<loopVars, ghostVars, callVars>>
  /\ UNCHANGED <<exitVars, waitVars, browserVars>>

(* send_batch: a platform without destination is skipped *)
SendSkip ==
  /\ pc = "send"
  /\ pi <= Len(by_platform)
  /\ _get_webhook_url(by_platform[pi]) = ""
  /\ pi' = pi + 1
  /\ UNCHANGED <<sb_listings, by_platform, bi, http, sent>>
  /\ UNCHANGED <<envVars, webhooks, store, running, pc>>
  /\ UNCHANGED <<loopVars, iterVars, scrapeVars, ghostVars, callVars>>
  /\ UNCHANGED <<exitVars, waitVars, browserVars>>

(* send_batch: one batch of one platform *)
SendOne ==
  /\ pc = "send"
  /\ pi <= Len(by_platform)
  /\ LET platform == by_platform[pi]
         webhook_url == _get_webhook_url(platform)
         platform_listings == PlatformListings(sb_listings, platform)
         batch == Batch(platform_listings, bi)
         more == bi + MAX_EMBEDS_PER_MESSAGE < Len(platform_listings)
     IN /\ webhook_url # ""
        /\ \E r \in Outcomes :
             /\ sent' = sent + BatchSent(batch, r)
             /\ IF r = <<"429", "raise">>
                THEN /\ http' = http \o BatchEvents(webhook_url, batch, r)
                     /\ pc' = "send_exc"
                     /\ UNCHANGED <<pi, bi>>
                ELSE /\ http' = http \o BatchEvents(webhook_url, batch, r)
                                \o (IF more THEN <<Sleep("RATE_LIMIT_DELAY")>> ELSE <<>>)
                     /\ bi' = IF more THEN bi + MAX_EMBEDS_PER_MESSAGE ELSE 0
                     /\ pi' = IF more THEN pi ELSE pi + 1
                     /\ pc' = pc
  /\ UNCHANGED <<sb_listings, by_platform>>
  /\ UNCHANGED <<envVars, webhooks, store, running>>
  /\ UNCHANGED <<loopVars, iterVars, scrapeVars, ghostVars, callVars>>
  /\ UNCHANGED <<exitVars, waitVars, browserVars>>

(* send_batch: "return sent" *)
SendReturn ==
  /\ pc = "send"
  /\ pi > Len(by_platform)
  /\ pc' = "send_ret"
  /\ UNCHANGED <<envVars, webhooks, store, running>>
  /\ UNCHANGED <<loopVars, iterVars, scrapeVars, sendVars, ghostVars, callVars>>
  /\ UNCHANGED <<exitVars, waitVars, browserVars>>

(* listings of which none was delivered are not stored *)
AfterSendSkipUnsent ==
  /\ pc = "send_ret"
  /\ IF sent = 0
     THEN NextScraper /\ UNCHANGED dispatched
     ELSE /\ dispatched' = dispatched \cup Ids(new_listings)
          /\ http' = <<>>
          /\ pc' = "store"
          /\ UNCHANGED <<sb_listings, by_platform, pi, bi, sent>>
          /\ UNCHANGED <<iterVars, scrapeVars>>
  /\ UNCHANGED <<envVars, webhooks, store, running, persisted>>
  /\ UNCHANGED <<loopVars, callVars>>
  /\ UNCHANGED <<exitVars, waitVars, browserVars>>

(* run_monitor: send_batch has returned *)
AfterSend ==
  /\ pc = "send_ret"
  /\ dispatched' = dispatched \cup Ids(new_listings)
  /\ http' = <<>>
  /\ pc' = "store"
  /\ UNCHANGED <<sb_listings, by_platform, pi, bi, sent, persisted>>
  /\ UNCHANGED <<envVars, webhooks, store, running>>
  /\ UNCHANGED <<loopVars, iterVars, scrapeVars, callVars>>
  /\ UNCHANGED <<exitVars, waitVars, browserVars>>

(* run_monitor: send_batch has raised *)
SendRaised ==
  /\ pc = "send_exc"
  /\ NextScraper
  /\ UNCHANGED <<envVars, webhooks, store, running>>
  /\ UNCHANGED <<loopVars, ghostVars, callVars>>
  /\ UNCHANGED <<exitVars, waitVars, browserVars>>

(* an exception of store_listings not caught by the handler of the adapter *)
StoreRaiseFatal ==
  /\ pc = "store"
  /\ \/ LET res == store_listings(store, new_listings, now)
        IN /\ store' = res.rows
           /\ stored' = res.stored
           /\ persisted' = persisted \cup Ids(new_listings)
           /\ pc' = "tally"
           /\ UNCHANGED <<si, seen_ids, new_listings, scrapeVars, sendVars>>
     \/ /\ pc' = "fatal"
        /\ UNCHANGED <<store, persisted, iterVars, scrapeVars, sendVars>>
  /\ UNCHANGED <<envVars, webhooks, running, dispatched>>
  /\ UNCHANGED <<loopVars, callVars>>
  /\ UNCHANGED <<exitVars, waitVars, browserVars>>

Store ==
  /\ pc = "store"
  /\ \/ LET res == store_listings(store, new_listings, now)
        IN /\ store' = res.rows
           /\ stored' = res.stored
           /\ persisted' = persisted \cup Ids(new_listings)
           /\ pc' = "tally"
           /\ UNCHANGED <<si, seen_ids, new_listings, scrapeVars, sendVars>>
     \/ /\ NextScraper                       \* the database is unavailable
        /\ UNCHANGED <<store, persisted>>
  /\ UNCHANGED <<envVars, webhooks, running, dispatched>>
  /\ UNCHANGED <<loopVars, callVars>>
  /\ UNCHANGED <<exitVars, waitVars, browserVars>>

Tally ==
  /\ pc = "tally"
  /\ total_new' = total_new + Len(new_listings)
  /\ NextScraper
  /\ UNCHANGED <<envVars, webhooks, store, running, scrapers, check_count,
                 last_cleanup>>
  /\ UNCHANGED <<ghostVars, callVars>>
  /\ UNCHANGED <<exitVars, waitVars, browserVars>>

(* the hours since the start of the process *)
hours_since_start == Hours(now)

hours_since_cleanup == Hours(now) - Hours(last_cleanup)

(* get_listing_count and the daily cleanup *)
Summary ==
  /\ pc = "summary"
  /\ \/ /\ IF hours_since_cleanup >= CLEANUP_INTERVAL_HOURS
           THEN /\ store' = cleanup_old_listings(store, now, RETENTION_DAYS).rows
                /\ last_cleanup' = now
           ELSE UNCHANGED <<store, last_cleanup>>
        /\ pc' = IF running THEN "sleep" ELSE "loop"
     \/ /\ pc' = "fatal"                     \* the database is unavailable
        /\ UNCHANGED <<store, last_cleanup>>
  /\ UNCHANGED <<envVars, webhooks, running, scrapers, check_count, total_new>>
  /\ UNCHANGED <<iterVars, scrapeVars, sendVars, ghostVars, callVars>>
  /\ UNCHANGED <<exitVars, waitVars, browserVars>>

Sleeping ==
  /\ pc = "sleep"
  /\ pc' = "loop"
  /\ UNCHANGED <<envVars, webhooks, store, running>>
  /\ UNCHANGED <<loopVars, iterVars, scrapeVars, sendVars, ghostVars, callVars>>
  /\ UNCHANGED <<exitVars, waitVars, browserVars>>

(* the crash announced and the loop entered again *)
FatalRestart ==
  /\ pc = "fatal"
  /\ announced' = announced + 1
  /\ pc' = "loop"
  /\ UNCHANGED <<envVars, webhooks, store, running>>
  /\ UNCHANGED <<loopVars, iterVars, scrapeVars, sendVars, ghostVars, callVars>>
  /\ UNCHANGED <<closed, close_raised, raised, waitVars, browserVars>>

(* "except Exception": send_error_message, then the finally block *)
Fatal ==
  /\ pc = "fatal"
  /\ announced' = announced + 1
  /\ pc' = "teardown"
  /\ UNCHANGED <<envVars, webhooks, store, running>>
  /\ UNCHANGED <<loopVars, iterVars, scrapeVars, sendVars, ghostVars, callVars>>
  /\ UNCHANGED <<closed, close_raised, raised, waitVars, browserVars>>

(* the loop of the finally block stopped by the first close() that raises *)
RECURSIVE CloseAllAbort(_, _, _, _)
CloseAllAbort(list, k, R, called) ==
  IF k > Len(list) THEN called
  ELSE IF list[k] \in R THEN Append(called, list[k])
       ELSE CloseAllAbort(list, k + 1, R, Append(called, list[k]))

(* "for scraper in scrapers: try: scraper.close() except Exception": R are *)
(* the scrapers whose close() raises; the result is the calls made         *)
RECURSIVE CloseAll(_, _, _, _)
CloseAll(list, k, R, called) ==
  IF k > Len(list) THEN called
  ELSE CloseAll(list, k + 1, R, Append(called, list[k]))

(* the finally block: close every scraper *)
Teardown ==
  /\ pc = "teardown"
  /\ \E R \in SUBSET {scrapers[k] : k \in 1..Len(scrapers)} :
       /\ closed' = CloseAll(scrapers, 1, R, <<>>)
       /\ close_raised' = R
  /\ pc' = "done"
  /\ UNCHANGED <<envVars, webhooks, store, running>>
  /\ UNCHANGED <<loopVars, iterVars, scrapeVars, sendVars, ghostVars, callVars>>
  /\ UNCHANGED <<announced, raised, waitVars, browserVars>>

Next ==
  \/ Posting \/ Tick
  \/ Start \/ LoopHead \/ Snapshot \/ GetListingsEnter \/ ScrapeTerm \/ Got
  \/ SendSkip \/ SendOne \/ SendReturn \/ AfterSend \/ SendRaised
  \/ Store \/ Tally \/ Summary \/ Sleeping \/ Fatal \/ Teardown

Spec == Init /\ [][Next]_vars

-----------------------------------------------------------------------------
(* The polling loop with a clock that advances by twelve hours between the *)
(* work of two cycles.                                                     *)

TickHalfDay ==
  /\ pc = "summary"
  /\ now < MaxHalfDays
  /\ now' = now + 1
  /\ UNCHANGED <<site, next_native, webhooks, store, running, pc>>
  /\ UNCHANGED <<loopVars, iterVars, scrapeVars, sendVars, ghostVars, callVars>>
  /\ UNCHANGED <<exitVars, waitVars, browserVars>>

NextClock ==
  \/ Posting \/ TickHalfDay
  \/ Start \/ LoopHead \/ Snapshot \/ GetListingsEnter \/ ScrapeTerm \/ Got
  \/ SendSkip \/ SendOne \/ SendReturn \/ AfterSend \/ SendRaised
  \/ Store \/ Tally \/ Summary \/ Sleeping \/ Fatal \/ Teardown

SpecClock == Init /\ [][NextClock]_vars

-----------------------------------------------------------------------------
(* The polling loop with the shutdown signal.  The sites show nothing, so  *)
(* every get_listings returns the empty list.  The wait between two cycles *)
(* is taken one second at a time.                                          *)

(* the part of run_monitor the main thread is in *)
Block ==
  IF pc = "teardown" THEN "finally" ELSE IF pc = "fatal" THEN "except" ELSE "try"

(* sys.exit(1) on the first signal already *)
signal_handlerExitAtOnce ==
  /\ pc \notin {"start", "teardown", "done"}
  /\ raised' = Append(raised, [exc |-> "SystemExit", at |-> Block])
  /\ pc' = "teardown"
  /\ running' = FALSE
  /\ UNCHANGED <<envVars, webhooks, store, announced, waitVars>>
  /\ UNCHANGED <<closed, close_raised>>
  /\ UNCHANGED browserVars
  /\ UNCHANGED <<loopVars, iterVars, scrapeVars, sendVars, ghostVars, callVars>>

(* main.signal_handler, run between two steps of the main thread; sys.exit *)
(* raises SystemExit there, which only the finally block handles           *)
signal_handler ==
  /\ pc \notin {"start", "done"}
  /\ IF ~running
     THEN /\ raised' = Append(raised, [exc |-> "SystemExit", at |-> Block])
          /\ \/ /\ pc # "teardown"
                /\ pc' = "teardown"
                /\ UNCHANGED <<closed, close_raised>>
             \/ /\ pc = "teardown"
                /\ \E k \in 0..Len(scrapers) :
                     \E R \in SUBSET {scrapers[j] : j \in 1..k} :
                       /\ closed' = SubSeq(scrapers, 1, k)
                       /\ close_raised' = R
                /\ pc' = "done"
     ELSE UNCHANGED <<pc, closed, close_raised, raised>>
  /\ running' = FALSE
  /\ UNCHANGED <<envVars, webhooks, store, announced, waitVars>>
  /\ UNCHANGED browserVars
  /\ UNCHANGED <<loopVars, iterVars, scrapeVars, sendVars, ghostVars, callVars>>

(* the flag not looked at during the wait *)
SleepCheckBlind ==
  /\ pc = "sleep"
  /\ IF slept < CHECK_INTERVAL_SECONDS
     THEN pc' = "sleeping" /\ UNCHANGED slept
     ELSE pc' = "loop" /\ slept' = 0
  /\ UNCHANGED <<envVars, webhooks, store, running, exitVars, elapsed>>
  /\ UNCHANGED browserVars
  /\ UNCHANGED <<loopVars, iterVars, scrapeVars, sendVars, ghostVars, callVars>>

(* "for _ in range(CHECK_INTERVAL_SECONDS): if not running: break" *)
SleepCheck ==
  /\ pc = "sleep"
  /\ IF slept < CHECK_INTERVAL_SECONDS /\ running
     THEN pc' = "sleeping" /\ UNCHANGED slept
     ELSE pc' = "loop" /\ slept' = 0
  /\ UNCHANGED <<envVars, webhooks, store, running, exitVars, elapsed>>
  /\ UNCHANGED browserVars
  /\ UNCHANGED <<loopVars, iterVars, scrapeVars, sendVars, ghostVars, callVars>>

(* "time.sleep(1)" *)
SleepOne ==
  /\ pc = "sleeping"
  /\ slept' = slept + 1
  /\ pc' = "sleep"
  /\ UNCHANGED <<envVars, webhooks, store, running, exitVars, elapsed>>
  /\ UNCHANGED browserVars
  /\ UNCHANGED <<loopVars, iterVars, scrapeVars, sendVars, ghostVars, callVars>>

MainThread ==
  \/ Start \/ LoopHead \/ Snapshot \/ GetListingsEnter \/ ScrapeTerm \/ Got
  \/ Summary \/ SleepCheck \/ SleepOne \/ Fatal \/ Teardown

NextStop == MainThread \/ signal_handler

SpecStop == Init /\ [][NextStop]_vars

(* the main thread is not stopped for ever *)
SpecStopFair == SpecStop /\ WF_vars(MainThread)

-----------------------------------------------------------------------------
(* The ways out of the polling loop: the stop flag, an exception of the    *)
(* summary, SystemExit of the signal handler, and a KeyboardInterrupt      *)
(* raised inside the try block.                                            *)

(* "except KeyboardInterrupt": logged, then the finally block *)
KeyboardInterrupt ==
  /\ pc \notin {"start", "fatal", "teardown", "done"}
  /\ raised' = Append(raised, [exc |-> "KeyboardInterrupt", at |-> Block])
  /\ pc' = "teardown"
  /\ UNCHANGED <<envVars, webhooks, store, running>>
  /\ UNCHANGED <<announced, closed, close_raised, waitVars, browserVars>>
  /\ UNCHANGED <<loopVars, iterVars, scrapeVars, sendVars, ghostVars, callVars>>

NextExit == MainThread \/ signal_handler \/ KeyboardInterrupt

SpecExit == Init /\ [][NextExit]_vars

-----------------------------------------------------------------------------
(* Direct calls of one function: the arguments are drawn in the initial    *)
(* state, the call is one step.                                            *)

Natives == 1..MaxNative

(* a Craigslist card is well formed, lacks a link, or fails to parse; a   *)
(* Facebook link is well formed, fails to parse, or has an off-topic title *)
Cards(platform) ==
  {[n |-> n, link |-> TRUE, bad |-> FALSE, kw |-> TRUE] : n \in Natives}
  \cup {[n |-> n, link |-> TRUE, bad |-> TRUE, kw |-> TRUE] : n \in Natives}
  \cup (IF platform = "craigslist"
        THEN {[n |-> n, link |-> FALSE, bad |-> FALSE, kw |-> TRUE] : n \in Natives}
        ELSE {[n |-> n, link |-> TRUE, bad |-> FALSE, kw |-> FALSE] : n \in Natives})

SeqsUpTo(S, n) == UNION {[1..k -> S] : k \in 0..n}

ParseArgs ==
  UNION {[fn : {"parse"}, platform : {p}, page : SeqsUpTo(Cards(p), MaxPage),
          seen : SUBSET {<<Prefix(p), n>> : n \in Natives}] : p \in Platforms}

StoreIds == {<<"cl", 1>>, <<"cl", 2>>, <<"fb", 1>>}
PlatformOf(id) == IF id[1] = "cl" THEN "craigslist" ELSE "facebook"

(* the times of a call: the start, a tick later, a retention window later *)
(* and a tick after that                                                 *)
CallTimes == {0, 1, LONG_TICKS - 1, LONG_TICKS}

(* the tables over StoreIds filled until time t *)
Stores(t) ==
  {{[id |-> id, platform |-> PlatformOf(id), first_seen |-> f[id]] :
      id \in {x \in StoreIds : f[x] >= 0}} :
     f \in [StoreIds -> {-1} \cup {u \in CallTimes : u <= t}]}

StoreArgs ==
  [fn : {"store_listings"},
   listings : SeqsUpTo([id : StoreIds, platform : Platforms], MaxList)]

CleanupDays == {0, RETENTION_DAYS}

CleanupArgs == [fn : {"cleanup_old_listings"}, days : CleanupDays]

InitCall ==
  /\ site = [p \in Platforms |-> [t \in SEARCH_TERMS |-> <<>>]]
  /\ next_native = 1
  /\ webhooks = [default |-> FALSE, craigslist |-> TRUE, facebook |-> TRUE]
  /\ running = TRUE
  /\ pc = "call"
  /\ Locals
  /\ ret = NoArg
  /\ \/ arg \in ParseArgs /\ now = 0 /\ store = {}
     \/ arg \in StoreArgs /\ now \in CallTimes /\ store \in Stores(now)
     \/ arg \in CleanupArgs /\ now \in CallTimes /\ store \in Stores(now)

CallParse ==
  /\ pc = "call" /\ arg.fn = "parse"
  /\ ret' = Parse(arg.platform, arg.page, arg.seen)
  /\ pc' = "return"
  /\ UNCHANGED <<envVars, webhooks, store, running, arg>>
  /\ UNCHANGED <<loopVars, iterVars, scrapeVars, sendVars, ghostVars>>
  /\ UNCHANGED <<exitVars, waitVars, browserVars>>

CallStore ==
  /\ pc = "call" /\ arg.fn = "store_listings"
  /\ LET res == store_listings(store, arg.listings, now)
     IN store' = res.rows /\ ret' = [stored |-> res.stored]
  /\ pc' = "return"
  /\ UNCHANGED <<envVars, webhooks, running, arg>>
  /\ UNCHANGED <<loopVars, iterVars, scrapeVars, sendVars, ghostVars>>
  /\ UNCHANGED <<exitVars, waitVars, browserVars>>

CallCleanup ==
  /\ pc = "call" /\ arg.fn = "cleanup_old_listings"
  /\ LET res == cleanup_old_listings(store, now, arg.days)
     IN store' = res.rows /\ ret' = [count |-> res.count]
  /\ pc' = "return"
  /\ UNCHANGED <<envVars, webhooks, running, arg>>
  /\ UNCHANGED <<loopVars, iterVars, scrapeVars, sendVars, ghostVars>>
  /\ UNCHANGED <<exitVars, waitVars, browserVars>>

NextCall == CallParse \/ CallStore \/ CallCleanup

SpecCall == InitCall /\ [][NextCall]_vars

(* send_batch called with up to MaxListings listings: the k-th listing is *)
(* of the other platform when k is a multiple of stride                   *)
Other(platform) == IF platform = "craigslist" THEN "facebook" ELSE "craigslist"

SendInput(n, first, stride) ==
  [k \in 1..n |->
     LET platform == IF stride > 0 /\ k % stride = 0 THEN Other(first) ELSE first
     IN [id |-> <<Prefix(platform), k>>, platform |-> platform]]

SendArgs ==
  {[fn |-> "send_batch", listings |-> SendInput(n, first, stride)] :
     n \in 0..MaxListings, first \in Platforms, stride \in {0, 2, 3}}

InitSend ==
  /\ site = [p \in Platforms |-> [t \in SEARCH_TERMS |-> <<>>]]
  /\ next_native = 1
  /\ webhooks \in Configs
  /\ store = {} /\ now = 0
  /\ running = TRUE
  /\ pc = "call"
  /\ Locals
  /\ arg \in SendArgs
  /\ ret = NoArg

CallSendBatch ==
  /\ pc = "call" /\ arg.fn = "send_batch"
  /\ SendBatchCall(arg.listings)
  /\ UNCHANGED <<envVars, webhooks, store, running>>
  /\ UNCHANGED <<loopVars, iterVars, scrapeVars, ghostVars, callVars>>
  /\ UNCHANGED <<exitVars, waitVars, browserVars>>

NextSend == CallSendBatch \/ SendSkip \/ SendOne \/ SendReturn

SpecSend == InitSend /\ [][NextSend]_vars

-----------------------------------------------------------------------------
(* Direct calls of the functions on strings: _create_embed, the choice of *)
(* the image reference in the two parsers, _extract_id.  A value that is  *)
(* a str or None is a record: None, or Str of the characters.             *)

None == [some |-> FALSE, s |-> <<>>]
Str(s) == [some |-> TRUE, s |-> s]

(* the truth value of a str or None *)
Truthy(x) == x.some /\ x.s # <<>>

(* "a or b" *)
Or(a, b) == IF Truthy(a) THEN a ELSE b

UrlStrings ==
  {<<>>,
   <<"h", "t", "t", "p", ":", "/", "/", "a", "/", "b", ".", "j", "p",
     "g">>,
   <<"h", "t", "t", "p", "s", ":", "/", "/", "a", "/", "b", ".", "j",
     "p", "g">>,
   <<"h", "t", "t", "p", "s", ":", "/", "/", "a", "/", "b", "l", "a",
     "n", "k", ".", "g", "i", "f">>,
   <<"d", "a", "t", "a", ":", "i", "m", "a", "g", "e", "/", "p", "n",
     "g", ";", "b", "a", "s", "e", "6", "4", ",", "A", "A", "A", "A">>,
   <<"H", "T", "T", "P", "S", ":", "/", "/", "a", "/", "b", ".", "j",
     "p", "g">>,
   <<"f", "t", "p", ":", "/", "/", "a", "/", "b", ".", "j", "p", "g">>,
   <<"/", "/", "a", "/", "b", ".", "j", "p", "g">>,
   <<"/", "i", "m", "g", "/", "b", ".", "j", "p", "g">>}

UrlValues == {None} \cup {Str(s) : s \in UrlStrings}

S_Listing == <<"L", "i", "s", "t", "i", "n", "g">>
S_Columbus == <<"C", "o", "l", "u", "m", "b", "u", "s", ",", " ", "O", "H">>

(* every truthy url taken for valid *)
_is_valid_url_truthy(url) == Truthy(url)

_is_valid_url(url) ==
  IF ~Truthy(url) THEN FALSE
  ELSE StartsWith(url.s, S_http) \/ StartsWith(url.s, S_https)

(* the part of a dict under the keys of K, given by the record r *)
Only(r, K) == [k \in K |-> r[k]]

(* the embed as a function on the keys it has *)
_create_embed(listing) ==
  LET all == [title |-> IF Truthy(listing.title) THEN listing.title.s ELSE S_Listing,
              url |-> listing.url.s,
              description |-> listing.location.s,
              thumbnail |-> [url |-> listing.image_url.s]]
  IN Only(all, {"title"}
               \cup (IF _is_valid_url(listing.url) THEN {"url"} ELSE {})
               \cup (IF Truthy(listing.location) THEN {"description"} ELSE {})
               \cup (IF _is_valid_url(listing.image_url) THEN {"thumbnail"} ELSE {}))


EmbedArgs ==
  [fn : {"_create_embed"},
   listing : [title : {None, Str(S_Listing)}, url : UrlValues,
              image_url : UrlValues, location : {None, Str(S_Columbus)}]]

(* craigslist.py: the image of a card; img tells whether the card has an *)
(* img element, data_src and src are its attributes                      *)
CLImage(img, data_src, src) ==
  IF ~img THEN None
  ELSE LET image_url == Or(data_src, src)
       IN IF Truthy(image_url)
             /\ (StartsWith(image_url.s, S_data)
                 \/ Contains(Lower(image_url.s), S_blank))
          THEN None
          ELSE image_url

(* facebook.py: the image of a link; card tells whether the link has a div *)
(* above it                                                                 *)
FBImage(card, img, src) ==
  IF card /\ img THEN src ELSE None

ImageArgs ==
  [fn : {"image_url"}, platform : {"craigslist"}, card : {TRUE}, img : BOOLEAN,
   data_src : UrlValues, src : UrlValues]
  \cup [fn : {"image_url"}, platform : {"facebook"}, card : BOOLEAN, img : BOOLEAN,
        data_src : {None}, src : UrlValues]

(* the reference the parser has taken from the card, before any test *)
Extracted(a) ==
  IF ~a.card \/ ~a.img THEN None
  ELSE IF a.platform = "craigslist" THEN Or(a.data_src, a.src) ELSE a.src

(* _extract_id.  hash(url) of a str depends on the hash seed the        *)
(* interpreter draws when the process starts: the value is an input of *)
(* the call, one per process.                                          *)

DIGITS == <<"0", "1", "2", "3", "4", "5", "6", "7", "8", "9">>
IsDigit(c) == \E k \in 1..Len(DIGITS) : DIGITS[k] = c

(* str(n) of an int *)
RECURSIVE Decimal(_)
Decimal(n) ==
  IF n < 0 THEN <<"-">> \o Decimal(0 - n)
  ELSE IF n < 10 THEN <<DIGITS[n + 1]>>
  ELSE Decimal(n \div 10) \o <<DIGITS[(n % 10) + 1]>>

S_dot_html == <<".", "h", "t", "m", "l">>
S_item == <<"/", "i", "t", "e", "m", "/">>
S_cl == <<"c", "l", "_">>
S_fb == <<"f", "b", "_">>
CRAIGSLIST_BASE_URL ==
  <<"h", "t", "t", "p", "s", ":", "/", "/", "c",
                         "o", "l", "u", "m", "b", "u", "s", ".", "c",
                         "r", "a", "i", "g", "s", "l", "i", "s", "t",
                         ".", "o", "r", "g">>

(* the end of the run of digits that starts at position i of s *)
RECURSIVE DigitsEnd(_, _)
DigitsEnd(s, i) ==
  IF i <= Len(s) /\ IsDigit(s[i]) THEN DigitsEnd(s, i + 1) ELSE i - 1

(* re.search(r'/(\d+)\.html', url): the places of the group of the first *)
(* match, <<>> when there is none                                        *)
SearchHtml(url) ==
  LET hits == {i \in 1..Len(url) :
                 /\ url[i] = "/"
                 /\ DigitsEnd(url, i + 1) > i
                 /\ SubSeq(url, DigitsEnd(url, i + 1) + 1,
                           Min(DigitsEnd(url, i + 1) + Len(S_dot_html), Len(url)))
                      = S_dot_html}
  IN IF hits = {} THEN <<>>
     ELSE LET i == CHOOSE x \in hits : \A y \in hits : x <= y
          IN <<i + 1, DigitsEnd(url, i + 1)>>

(* re.search(r'/item/(\d+)', url) *)
SearchItem(url) ==
  LET hits == {i \in 1..Len(url) :
                 /\ SubSeq(url, i, Min(i + Len(S_item) - 1, Len(url))) = S_item
                 /\ DigitsEnd(url, i + Len(S_item)) >= i + Len(S_item)}
  IN IF hits = {} THEN <<>>
     ELSE LET i == CHOOSE x \in hits : \A y \in hits : x <= y
          IN <<i + Len(S_item), DigitsEnd(url, i + Len(S_item))>>

(* CraigslistScraper._extract_id; h is hash(url) in this process *)
CLExtractId(url, h) ==
  LET match == SearchHtml(url)
  IN IF match # <<>> THEN S_cl \o SubSeq(url, match[1], match[2])
     ELSE S_cl \o Decimal(h)

(* FacebookScraper._extract_id *)
FBExtractId(url, h) ==
  LET match == SearchItem(url)
  IN IF match # <<>> THEN S_fb \o SubSeq(url, match[1], match[2])
     ELSE S_fb \o Decimal(h)

(* the id the parser gives the posting behind href: Craigslist makes the *)
(* address absolute first, Facebook takes href as it is                  *)
ListingId(platform, href, h) ==
  IF platform = "craigslist"
  THEN CLExtractId(IF StartsWith(href, <<"/">>) THEN CRAIGSLIST_BASE_URL \o href
                   ELSE href, h)
  ELSE FBExtractId(href, h)

(* hrefs of a.posting-title links of Craigslist cards: with the posting *)
(* number, and without                                                  *)
CLHrefs ==
  {<<"/", "f", "u", "o", "/", "d", "/", "s", "o", "f", "a", "/", "7",
     "7", "1", "2", ".", "h", "t", "m", "l">>,
   <<"h", "t", "t", "p", "s", ":", "/", "/", "c", "o", "l", "u", "m",
     "b", "u", "s", ".", "c", "r", "a", "i", "g", "s", "l", "i", "s",
     "t", ".", "o", "r", "g", "/", "f", "u", "o", "/", "d", "/", "c",
     "o", "u", "c", "h", "/", "8", "1", ".", "h", "t", "m", "l">>,
   <<"/", "f", "u", "o", "/", "d", "/", "s", "o", "f", "a">>,
   <<"h", "t", "t", "p", "s", ":", "/", "/", "c", "o", "l", "u", "m",
     "b", "u", "s", ".", "c", "r", "a", "i", "g", "s", "l", "i", "s",
     "t", ".", "o", "r", "g", "/", "p", "o", "s", "t", "/", "9", "3">>}

(* hrefs that match /marketplace/item/\d+ *)
FBHrefs ==
  {<<"/", "m", "a", "r", "k", "e", "t", "p", "l", "a", "c", "e", "/",
     "i", "t", "e", "m", "/", "7", "7", "1", "2", "/">>,
   <<"/", "m", "a", "r", "k", "e", "t", "p", "l", "a", "c", "e", "/",
     "i", "t", "e", "m", "/", "8", "1", "/", "?", "r", "e", "f", "=",
     "s", "e", "a", "r", "c", "h">>,
   <<"h", "t", "t", "p", "s", ":", "/", "/", "w", "w", "w", ".", "f",
     "a", "c", "e", "b", "o", "o", "k", ".", "c", "o", "m", "/", "m",
     "a", "r", "k", "e", "t", "p", "l", "a", "c", "e", "/", "i", "t",
     "e", "m", "/", "9", "3">>}

(* values of hash(url) *)
HashValues == {0 - 93, 0, 81, 7712}

IdArgs ==
  [fn : {"_extract_id"}, platform : {"craigslist"}, href : CLHrefs,
   hash1 : HashValues, hash2 : HashValues]
  \cup [fn : {"_extract_id"}, platform : {"facebook"}, href : FBHrefs,
        hash1 : HashValues, hash2 : HashValues]

-----------------------------------------------------------------------------
(* The title of a Listing.  The text of an element is what the page holds; *)
(* get_text(strip=True) takes the white space off its ends.                *)

(* "title[:200]" *)
TitleLimit == 200

FB_SENTINEL ==
  <<"F", "a", "c", "e", "b", "o", "o", "k", " ", "L", "i", "s", "t", "i",
    "n", "g">>
CL_SENTINEL ==
  <<"C", "r", "a", "i", "g", "s", "l", "i", "s", "t", " ", "L", "i", "s",
    "t", "i", "n", "g">>

FURNITURE_KEYWORDS ==
  <<
    <<"s", "e", "c", "t", "i", "o", "n", "a", "l">>,
    <<"s", "o", "f", "a">>,
    <<"c", "o", "u", "c", "h">>,
    <<"l", "o", "v", "e", "s", "e", "a", "t">>,
    <<"c", "h", "a", "i", "s", "e">>,
    <<"r", "e", "c", "l", "i", "n", "e", "r">>,
    <<"f", "u", "r", "n", "i", "t", "u", "r", "e">>,
    <<"s", "e", "a", "t", "i", "n", "g">>,
    <<"l", "i", "v", "i", "n", "g", " ", "r", "o", "o", "m">>,
    <<"s", "e", "a", "t", " ", "s", "o", "f", "a">>,
    <<"m", "o", "d", "u", "l", "a", "r">>
  >>

S_dollar == <<"$">>
S_Free == <<"F", "r", "e", "e">>

(* n times the character c *)
Rep(c, n) == [i \in 1..n |-> c]

(* s[:n] *)
Take(s, n) == SubSeq(s, 1, IF Len(s) < n THEN Len(s) ELSE n)

(* get_text(strip=True) of an element with one text node *)
RECURSIVE Strip(_)
Strip(s) ==
  IF s = <<>> THEN s
  ELSE IF s[1] = " " THEN Strip(Tail(s))
  ELSE IF s[Len(s)] = " " THEN Strip(SubSeq(s, 1, Len(s) - 1))
  ELSE s

(* "any(kw in title_lower for kw in FURNITURE_KEYWORDS)" *)
HasKeyword(title) ==
  \E k \in 1..Len(FURNITURE_KEYWORDS) : Contains(Lower(title), FURNITURE_KEYWORDS[k])

T_sofa ==
  <<"G", "r", "a", "y", " ", "s", "e", "c", "t", "i", "o", "n", "a", "l",
    " ", "s", "o", "f", "a">>
T_boots ==
  <<"W", "i", "n", "t", "e", "r", " ", "b", "o", "o", "t", "s", " ", "s",
    "i", "z", "e", " ", "9">>
T_COUCH ==
  <<"L", "E", "A", "T", "H", "E", "R", " ", "C", "O", "U", "C", "H", " ",
    "S", "E", "T">>
T_short ==
  <<"s", "o", "f", "a">>
T_price ==
  <<"$", "2", "5", "0">>
T_free ==
  <<"F", "r", "e", "e", " ", "c", "o", "u", "c", "h", " ", "p", "i", "c",
    "k", "u", "p">>
T_spaces ==
  <<" ", " ", " ">>
T_padded ==
  <<" ", " ", "B", "l", "u", "e", " ", "l", "o", "v", "e", "s", "e", "a",
    "t", " ", " ">>
T_city ==
  <<"C", "o", "l", "u", "m", "b", "u", "s", ",", " ", "O", "H">>
(* longer than the limit: the keyword across the limit, the keyword at *)
(* the start, no keyword                                               *)
T_long_end == Rep("x", TitleLimit - 2) \o <<"s", "o", "f", "a">>
T_long_start == <<"s", "o", "f", "a", " ">> \o Rep("x", TitleLimit + 20)
T_long_none == Rep("x", TitleLimit + 5)

Texts ==
  {<<>>, T_sofa, T_boots, T_COUCH, T_short, T_price, T_free, T_spaces,
   T_padded, T_city, T_long_end, T_long_start, T_long_none}

(* "for span in spans": the price and the title of a Facebook card *)
RECURSIVE FBTitleLoop(_, _, _)
FBTitleLoop(spans, k, title) ==
  IF k > Len(spans) THEN title
  ELSE LET text == Strip(spans[k])
       IN IF StartsWith(text, S_dollar) \/ Contains(text, S_Free)
          THEN FBTitleLoop(spans, k + 1, title)
          ELSE IF Len(text) > 10 /\ (Len(text) > Len(title) \/ title = FB_SENTINEL)
               THEN FBTitleLoop(spans, k + 1, text)
               ELSE FBTitleLoop(spans, k + 1, title)

(* the title found for a link: the sentinel when the link has no parent div *)
FBTitle(card, spans) == IF card THEN FBTitleLoop(spans, 1, FB_SENTINEL) ELSE FB_SENTINEL

(* the keyword test left out *)
FBRecordNoFilter(in_page, known, card, spans) ==
  IF in_page THEN [step |-> "continue", early_stopped |-> FALSE, title |-> None]
  ELSE IF known THEN [step |-> "break", early_stopped |-> TRUE, title |-> None]
  ELSE [step |-> "append", early_stopped |-> FALSE,
        title |-> Str(Take(FBTitle(card, spans), TitleLimit))]

(* one turn of the loop of _parse_listings on a link whose id is in         *)
(* page_seen_ids (in_page) or in db_seen_ids (known): what the loop does    *)
(* next, whether early_stopped is set, the title of the Listing appended    *)
FBRecord(in_page, known, card, spans) ==
  IF in_page THEN [step |-> "continue", early_stopped |-> FALSE, title |-> None]
  ELSE IF known THEN [step |-> "break", early_stopped |-> TRUE, title |-> None]
  ELSE IF ~HasKeyword(FBTitle(card, spans))
       THEN [step |-> "continue", early_stopped |-> FALSE, title |-> None]
  ELSE [step |-> "append", early_stopped |-> FALSE,
        title |-> Str(Take(FBTitle(card, spans), TitleLimit))]

(* the title cut to its first characters before the test for emptiness *)
CLTitleNoSentinel(label, link_text) ==
  LET title == IF label.some THEN Strip(label.s) ELSE Strip(link_text)
  IN Take(title, TitleLimit)

(* the title of the Listing of a Craigslist card: the text of span.label *)
(* if there is one, of the link otherwise                                *)
CLTitle(label, link_text) ==
  LET title == IF label.some THEN Strip(label.s) ELSE Strip(link_text)
  IN Take(IF title = <<>> THEN CL_SENTINEL ELSE title, TitleLimit)

TitleArgs ==
  [fn : {"title"}, platform : {"facebook"}, in_page : BOOLEAN, known : BOOLEAN,
   card : BOOLEAN, spans : UNION {[1..k -> Texts] : k \in 0..2},
   label : {None}, link_text : {<<>>}]
  \cup [fn : {"title"}, platform : {"craigslist"}, in_page : {FALSE},
        known : {FALSE}, card : {TRUE}, spans : {<<>>},
        label : {None} \cup {Str(t) : t \in Texts}, link_text : Texts]

InitPure ==
  /\ site = [p \in Platforms |-> [t \in SEARCH_TERMS |-> <<>>]]
  /\ next_native = 1
  /\ webhooks = [default |-> FALSE, craigslist |-> TRUE, facebook |-> TRUE]
  /\ store = {} /\ now = 0
  /\ running = TRUE
  /\ pc = "call"
  /\ Locals
  /\ arg \in EmbedArgs \cup ImageArgs \cup IdArgs \cup TitleArgs
  /\ ret = NoArg

CallCreateEmbed ==
  /\ pc = "call" /\ arg.fn = "_create_embed"
  /\ ret' = _create_embed(arg.listing)
  /\ pc' = "return"
  /\ UNCHANGED <<envVars, webhooks, store, running, arg>>
  /\ UNCHANGED <<loopVars, iterVars, scrapeVars, sendVars, ghostVars>>
  /\ UNCHANGED <<exitVars, waitVars, browserVars>>

(* the image_url of the Listing the parser builds from a card *)
CallImage ==
  /\ pc = "call" /\ arg.fn = "image_url"
  /\ ret' = IF arg.platform = "craigslist"
            THEN CLImage(arg.img, arg.data_src, arg.src)
            ELSE FBImage(arg.card, arg.img, arg.src)
  /\ pc' = "return"
  /\ UNCHANGED <<envVars, webhooks, store, running, arg>>
  /\ UNCHANGED <<loopVars, iterVars, scrapeVars, sendVars, ghostVars>>
  /\ UNCHANGED <<exitVars, waitVars, browserVars>>

(* the id of one posting in two runs of the program *)
CallExtractId ==
  /\ pc = "call" /\ arg.fn = "_extract_id"
  /\ ret' = [first |-> ListingId(arg.platform, arg.href, arg.hash1),
             second |-> ListingId(arg.platform, arg.href, arg.hash2)]
  /\ pc' = "return"
  /\ UNCHANGED <<envVars, webhooks, store, running, arg>>
  /\ UNCHANGED <<loopVars, iterVars, scrapeVars, sendVars, ghostVars>>
  /\ UNCHANGED <<exitVars, waitVars, browserVars>>

(* the title of the Listing a parser builds from one record, if it builds one *)
CallTitle ==
  /\ pc = "call" /\ arg.fn = "title"
  /\ ret' = IF arg.platform = "facebook"
            THEN FBRecord(arg.in_page, arg.known, arg.card, arg.spans)
            ELSE [step |-> "append", early_stopped |-> FALSE,
                  title |-> Str(CLTitle(arg.label, arg.link_text))]
  /\ pc' = "return"
  /\ UNCHANGED <<envVars, webhooks, store, running, arg>>
  /\ UNCHANGED <<loopVars, iterVars, scrapeVars, sendVars, ghostVars>>
  /\ UNCHANGED <<exitVars, waitVars, browserVars>>

NextPure == CallCreateEmbed \/ CallImage \/ CallExtractId \/ CallTitle

SpecPure == InitPure /\ [][NextPure]_vars

-----------------------------------------------------------------------------
(* send_startup_message and send_error_message called directly.  The      *)
(* answer of each destination is an input: a status, or "err" for a       *)
(* requests.RequestException.                                             *)

(* "for platform in ["craigslist", "facebook"]" *)
AnnouncePlatforms == <<"craigslist", "facebook">>

AnnouncePost(url, title, status) ==
  [kind |-> "post", url |-> url, embeds |-> <<title>>, status |-> status]

(* the loop left at the first destination that does not answer 204 *)
RECURSIVE AnnounceLoopBreak(_, _, _, _)
AnnounceLoopBreak(k, title, answers, acc) ==
  IF k > Len(AnnouncePlatforms) THEN acc
  ELSE LET platform == AnnouncePlatforms[k]
           webhook_url == _get_webhook_url(platform)
       IN IF webhook_url = "" THEN AnnounceLoopBreak(k + 1, title, answers, acc)
          ELSE IF answers[platform] # "204"
               THEN [posts |-> Append(acc.posts,
                                      AnnouncePost(webhook_url, title, answers[platform])),
                     success |-> acc.success]
          ELSE AnnounceLoopBreak(k + 1, title, answers,
                 [posts |-> Append(acc.posts,
                                   AnnouncePost(webhook_url, title, answers[platform])),
                  success |-> TRUE])

RECURSIVE AnnounceLoop(_, _, _, _)
AnnounceLoop(k, title, answers, acc) ==
  IF k > Len(AnnouncePlatforms) THEN acc
  ELSE LET platform == AnnouncePlatforms[k]
           webhook_url == _get_webhook_url(platform)
       IN IF webhook_url = "" THEN AnnounceLoop(k + 1, title, answers, acc)
          ELSE AnnounceLoop(k + 1, title, answers,
                 [posts |-> Append(acc.posts,
                                   AnnouncePost(webhook_url, title, answers[platform])),
                  success |-> acc.success \/ answers[platform] = "204"])

Answers == [Platforms -> Statuses]

InitAnnounce ==
  /\ site = [p \in Platforms |-> [t \in SEARCH_TERMS |-> <<>>]]
  /\ next_native = 1
  /\ webhooks \in Configs
  /\ store = {} /\ now = 0
  /\ running = TRUE
  /\ pc = "call"
  /\ Locals
  /\ arg \in [fn : {"send_startup_message", "send_error_message"}]
  /\ ret = NoArg

send_startup_message ==
  /\ pc = "call" /\ arg.fn = "send_startup_message"
  /\ \E answers \in Answers :
       LET r == AnnounceLoop(1, "CouchFinder Started", answers,
                             [posts |-> <<>>, success |-> FALSE])
       IN http' = r.posts /\ ret' = [success |-> r.success]
  /\ pc' = "return"
  /\ UNCHANGED <<sb_listings, by_platform, pi, bi, sent>>
  /\ UNCHANGED <<envVars, webhooks, store, running, arg>>
  /\ UNCHANGED <<loopVars, iterVars, scrapeVars, ghostVars>>
  /\ UNCHANGED <<exitVars, waitVars, browserVars>>

send_error_message ==
  /\ pc = "call" /\ arg.fn = "send_error_message"
  /\ \E answers \in Answers :
       LET r == AnnounceLoop(1, "CouchFinder Error", answers,
                             [posts |-> <<>>, success |-> FALSE])
       IN http' = r.posts /\ ret' = [success |-> r.success]
  /\ pc' = "return"
  /\ UNCHANGED <<sb_listings, by_platform, pi, bi, sent>>
  /\ UNCHANGED <<envVars, webhooks, store, running, arg>>
  /\ UNCHANGED <<loopVars, iterVars, scrapeVars, ghostVars>>
  /\ UNCHANGED <<exitVars, waitVars, browserVars>>

NextAnnounce == send_startup_message \/ send_error_message

SpecAnnounce == InitAnnounce /\ [][NextAnnounce]_vars

-----------------------------------------------------------------------------
(* FacebookScraper.get_listings called once, the access check and the wait *)
(* for the manual login taken step by step.                                *)

LoginPages ==
  {<<>>,
   <<[n |-> 1, link |-> TRUE, bad |-> FALSE, kw |-> TRUE]>>,
   <<[n |-> 2, link |-> TRUE, bad |-> FALSE, kw |-> TRUE],
     [n |-> 1, link |-> TRUE, bad |-> FALSE, kw |-> TRUE]>>}

InitLogin ==
  /\ \E pages \in [SEARCH_TERMS -> LoginPages] :
       site = [p \in Platforms |->
                 IF p = "facebook" THEN pages ELSE [t \in SEARCH_TERMS |-> <<>>]]
  /\ next_native = 1
  /\ webhooks = [default |-> FALSE, craigslist |-> TRUE, facebook |-> TRUE]
  /\ store = {} /\ now = 0
  /\ running = TRUE
  /\ pc = "call"
  /\ Locals
  /\ arg \in [fn : {"get_listings"}, seen : SUBSET {<<"fb", 1>>}]
  /\ ret = NoArg

(* _can_access_marketplace once page.goto has returned *)
_can_access_marketplace(p) ==
  LET current_url == p.url
  IN IF Contains(Lower(current_url), S_slash_login)
        \/ Contains(Lower(current_url), S_checkpoint)
     THEN FALSE
     ELSE IF Contains(Lower(current_url), S_marketplace) THEN TRUE
     ELSE p.items

(* "facebook.com" in current_url and "login" not in current_url.lower() *)
LooksLoggedIn(current_url) ==
  Contains(current_url, S_facebook_com) /\ ~Contains(Lower(current_url), S_login)

(* the follow-up check: "login" not in self.page.url.lower() *)
FollowUp(p) == ~Contains(Lower(p.url), S_login)

(* the three tests on every page, worked out once *)
PageTests ==
  {[page |-> p,
    can_access |-> _can_access_marketplace(p),
    looks_logged_in |-> LooksLoggedIn(p.url),
    follow_up |-> FollowUp(p)] : p \in Pages \cup {Blank}}

TestsOf(p) == CHOOSE t \in PageTests : t.page = p

SaveEv(ok) == [op |-> "storage_state", ok |-> ok]
CloseEv(ok) == [op |-> "close", ok |-> ok]

(* a visible browser left by the run before is replaced by a headless one *)
CallGetListingsHeadless ==
  /\ pc \in {"call", "got", "raised"} /\ arg.fn = "get_listings"
  /\ check_count < MaxChecks
  /\ check_count' = check_count + 1
  /\ scrapers' = <<"facebook">> /\ si' = 1 /\ seen_ids' = arg.seen
  /\ new_listings' = <<>>
  /\ ti' = 0 /\ all_listings' = <<>> /\ page_seen_ids' = {} /\ fetched' = <<>>
  /\ elapsed' = 0
  /\ IF _initialized /\ _headless
     THEN /\ pc' = "probe"
          /\ UNCHANGED <<self_page, _headless, _initialized, context>>
          /\ UNCHANGED playwright
     ELSE /\ _headless' = TRUE               \* _initialize_browser(headless=True)
          /\ playwright' = IF playwright.state = "none" THEN Started("facebook")
                           ELSE playwright
          /\ \/ /\ context' = "headless" /\ self_page' = Blank
                /\ _initialized' = TRUE
                /\ pc' = "probe"
             \/ /\ pc' = "raised"            \* the browser cannot be launched
                /\ UNCHANGED <<self_page, _initialized, context>>
  /\ UNCHANGED <<ctx_log, session, cl_context>>
  /\ UNCHANGED <<envVars, webhooks, store, running, last_cleanup, total_new, stored>>
  /\ UNCHANGED <<sendVars, ghostVars, callVars, exitVars, slept>>

(* get_listings up to the access check; the locals of the call before are *)
(* dead                                                                   *)
CallGetListings ==
  /\ pc \in {"call", "got", "raised"} /\ arg.fn = "get_listings"
  /\ check_count < MaxChecks
  /\ check_count' = check_count + 1
  /\ scrapers' = <<"facebook">> /\ si' = 1 /\ seen_ids' = arg.seen
  /\ new_listings' = <<>>
  /\ ti' = 0 /\ all_listings' = <<>> /\ page_seen_ids' = {} /\ fetched' = <<>>
  /\ elapsed' = 0
  /\ IF _initialized
     THEN /\ pc' = "probe"
          /\ UNCHANGED <<self_page, _headless, _initialized, context>>
          /\ UNCHANGED playwright
     ELSE /\ _headless' = TRUE               \* _initialize_browser(headless=True)
          /\ playwright' = IF playwright.state = "none" THEN Started("facebook")
                           ELSE playwright
          /\ \/ /\ context' = "headless" /\ self_page' = Blank
                /\ _initialized' = TRUE
                /\ pc' = "probe"
             \/ /\ pc' = "raised"            \* the browser cannot be launched
                /\ UNCHANGED <<self_page, _initialized, context>>
  /\ UNCHANGED <<ctx_log, session, cl_context>>
  /\ UNCHANGED <<envVars, webhooks, store, running, last_cleanup, total_new, stored>>
  /\ UNCHANGED <<sendVars, ghostVars, callVars, exitVars, slept>>

(* the for loop over the search terms is entered *)
StartTerms ==
  /\ pc' = "scrape"
  /\ ti' = 1 /\ all_listings' = <<>> /\ page_seen_ids' = {} /\ fetched' = <<>>
  /\ UNCHANGED new_listings

(* "if not self._can_access_marketplace():" *)
Probe ==
  /\ pc = "probe"
  /\ \/ \E p \in Pages :
          /\ self_page' = p
          /\ IF TestsOf(p).can_access
             THEN StartTerms /\ session' = "Authenticated"
             ELSE /\ pc' = "relaunch" /\ session' = "AwaitingManualLogin"
                  /\ UNCHANGED <<new_listings, scrapeVars>>
     \/ /\ pc' = "relaunch"                  \* page.goto raises: False
        /\ session' = "AwaitingManualLogin"
        /\ UNCHANGED <<self_page, new_listings, scrapeVars>>
  /\ UNCHANGED <<_headless, _initialized, context, ctx_log>>
  /\ UNCHANGED <<playwright, cl_context>>
  /\ UNCHANGED <<envVars, webhooks, store, running, si, seen_ids, stored>>
  /\ UNCHANGED <<loopVars, sendVars, ghostVars, callVars, exitVars, waitVars>>

(* the context closed without the attempt to save the storage state, and *)
(* left open when the save would fail                                    *)
RelaunchNoFlush ==
  /\ pc = "relaunch"
  /\ \E saved \in BOOLEAN :
       /\ ctx_log' = IF context = "none" \/ ~saved THEN ctx_log
                     ELSE ctx_log \o <<CloseEv(TRUE)>>
       /\ _headless' = FALSE /\ _initialized' = TRUE
       /\ context' = "visible" /\ self_page' = Blank
       /\ pc' = "login"
  /\ UNCHANGED <<session, playwright, cl_context>>
  /\ UNCHANGED <<envVars, webhooks, store, running>>
  /\ UNCHANGED <<loopVars, iterVars, scrapeVars, sendVars, ghostVars, callVars>>
  /\ UNCHANGED <<exitVars, waitVars>>

(* _relaunch_visible: the storage state saved, the context closed, a visible *)
(* browser launched                                                          *)
Relaunch ==
  /\ pc = "relaunch"
  /\ \E saved \in BOOLEAN, closes \in BOOLEAN, launched \in BOOLEAN :
       /\ ctx_log' = IF context = "none" THEN ctx_log
                     ELSE ctx_log \o <<SaveEv(saved), CloseEv(closes)>>
       /\ IF context # "none" /\ ~closes
          THEN /\ pc' = "raised"             \* context.close() raises
               /\ UNCHANGED <<self_page, _headless, _initialized, context>>
          ELSE /\ _headless' = FALSE         \* _initialize_browser(headless=False)
               /\ IF launched
                  THEN /\ context' = "visible" /\ self_page' = Blank
                       /\ _initialized' = TRUE
                       /\ pc' = "login"
                  ELSE /\ context' = "none" /\ _initialized' = FALSE
                       /\ pc' = "raised"
                       /\ UNCHANGED self_page
  /\ UNCHANGED <<session, playwright, cl_context>>
  /\ UNCHANGED <<envVars, webhooks, store, running>>
  /\ UNCHANGED <<loopVars, iterVars, scrapeVars, sendVars, ghostVars, callVars>>
  /\ UNCHANGED <<exitVars, waitVars>>

(* wait_for_manual_login up to its loop: page.goto of the login page *)
LoginGoto ==
  /\ pc = "login"
  /\ \/ \E p \in Pages : self_page' = p /\ pc' = "poll" /\ elapsed' = 0
     \/ pc' = "raised" /\ UNCHANGED <<self_page, elapsed>>
  /\ UNCHANGED <<_headless, _initialized, context, ctx_log, session>>
  /\ UNCHANGED <<playwright, cl_context>>
  /\ UNCHANGED <<envVars, webhooks, store, running, slept>>
  /\ UNCHANGED <<loopVars, iterVars, scrapeVars, sendVars, ghostVars, callVars>>
  /\ UNCHANGED exitVars

(* what one turn of the loop finds: the page where the user has brought the *)
(* browser (cur) and, when that looks logged in, the page after the goto of *)
(* the marketplace (land; cur again when the goto raises)                   *)
PollTurn(cur, land, raises) ==
  IF TestsOf(cur).looks_logged_in /\ ~raises
  THEN [page |-> land, logged_in |-> TestsOf(land).follow_up]
  ELSE [page |-> cur, logged_in |-> FALSE]

PollTurns ==
  {PollTurn(cur, land, raises) :
     cur \in Pages \cup {Blank}, land \in Pages, raises \in BOOLEAN}

(* the timeout not looked at *)
PollForever ==
  /\ pc = "poll"
  /\ \E r \in PollTurns :
          /\ self_page' = r.page
          /\ IF r.logged_in
             THEN StartTerms /\ session' = "Authenticated" /\ elapsed' = 0
             ELSE /\ elapsed' = elapsed + check_interval
                  /\ UNCHANGED <<pc, new_listings, scrapeVars, session>>
  /\ UNCHANGED <<_headless, _initialized, context, ctx_log>>
  /\ UNCHANGED <<playwright, cl_context>>
  /\ UNCHANGED <<envVars, webhooks, store, running, si, seen_ids, stored, slept>>
  /\ UNCHANGED <<loopVars, sendVars, ghostVars, callVars, exitVars>>

(* wait_for_manual_login: one turn of "while elapsed < timeout_seconds", *)
(* or "return False" and with it "return []" of get_listings            *)
Poll ==
  /\ pc = "poll"
  /\ IF elapsed < timeout_seconds
     THEN \E r \in PollTurns :
               /\ self_page' = r.page
               /\ IF r.logged_in
                  THEN /\ StartTerms            \* "return True", elapsed is gone
                       /\ session' = "Authenticated" /\ elapsed' = 0
                  ELSE /\ elapsed' = elapsed + check_interval
                       /\ UNCHANGED <<pc, new_listings, scrapeVars, session>>
     ELSE /\ new_listings' = <<>>
          /\ pc' = "got"
          /\ session' = "Unauthenticated"
          /\ UNCHANGED <<elapsed, scrapeVars, self_page>>
  /\ UNCHANGED <<_headless, _initialized, context, ctx_log>>
  /\ UNCHANGED <<playwright, cl_context>>
  /\ UNCHANGED <<envVars, webhooks, store, running, si, seen_ids, stored, slept>>
  /\ UNCHANGED <<loopVars, sendVars, ghostVars, callVars, exitVars>>

(* "self.playwright.stop()", by a scraper *)
Stopped(handle, who) == [state |-> "stopped", owner |-> handle.owner, by |-> who]

(* the handle stopped whoever started it *)
FBStopAny(handle) ==
  IF handle.state = "started" THEN Stopped(handle, "facebook") ELSE handle

(* FacebookScraper.close: "if self._owns_playwright and self.playwright" *)
FBStop(handle) ==
  IF handle.owner = "facebook" /\ handle.state = "started"
  THEN Stopped(handle, "facebook") ELSE handle

(* FacebookScraper.close, called by run_monitor when it ends *)
CloseFacebook ==
  /\ pc \in {"got", "raised"}
  /\ \E saved \in BOOLEAN, closes \in BOOLEAN :
       IF context = "none"
       THEN /\ _initialized' = FALSE
            /\ playwright' = FBStop(playwright)
            /\ UNCHANGED <<context, ctx_log>>
       ELSE /\ ctx_log' = ctx_log \o <<SaveEv(saved), CloseEv(closes)>>
            /\ IF closes
               THEN /\ context' = "none" /\ _initialized' = FALSE
                    /\ playwright' = FBStop(playwright)
               ELSE UNCHANGED <<context, _initialized, playwright>>   \* caught and logged
  /\ pc' = "closed"
  /\ UNCHANGED <<self_page, _headless, session, cl_context>>
  /\ UNCHANGED <<envVars, webhooks, store, running>>
  /\ UNCHANGED <<loopVars, iterVars, scrapeVars, sendVars, ghostVars, callVars>>
  /\ UNCHANGED <<exitVars, waitVars>>

(* run_monitor before the loop: the Craigslist scraper starts Playwright  *)
(* and opens its browser, the Facebook scraper is made with its handle.  *)
(* Without this step the Facebook scraper is on its own and starts       *)
(* Playwright itself.                                                    *)
StartScrapers ==
  /\ pc = "call" /\ arg.fn = "get_listings"
  /\ check_count = 0 /\ playwright.state = "none"
  /\ playwright' = Started("craigslist")
  /\ cl_context' = "open"
  /\ UNCHANGED <<self_page, _headless, _initialized, context, ctx_log, session>>
  /\ UNCHANGED <<envVars, webhooks, store, running, pc>>
  /\ UNCHANGED <<loopVars, iterVars, scrapeVars, sendVars, ghostVars, callVars>>
  /\ UNCHANGED <<exitVars, waitVars>>

(* CraigslistScraper.close, called by run_monitor after the one of the *)
(* Facebook scraper: the context, the browser, then the handle         *)
CloseCraigslist ==
  /\ pc = "closed" /\ cl_context = "open"
  /\ \E closes \in BOOLEAN :
       IF closes
       THEN /\ cl_context' = "none"
            /\ playwright' = IF playwright.owner = "craigslist"
                                /\ playwright.state = "started"
                             THEN Stopped(playwright, "craigslist")
                             ELSE playwright
       ELSE UNCHANGED <<cl_context, playwright>>   \* caught and logged
  /\ pc' = "ended"
  /\ UNCHANGED <<self_page, _headless, _initialized, context, ctx_log, session>>
  /\ UNCHANGED <<envVars, webhooks, store, running>>
  /\ UNCHANGED <<loopVars, iterVars, scrapeVars, sendVars, ghostVars, callVars>>
  /\ UNCHANGED <<exitVars, waitVars>>

NextLogin ==
  \/ CallGetListings \/ Probe \/ Relaunch \/ LoginGoto \/ Poll \/ ScrapeTerm
  \/ CloseFacebook \/ StartScrapers \/ CloseCraigslist

SpecLogin == InitLogin /\ [][NextLogin]_vars

SpecLoginFair == SpecLogin /\ WF_vars(NextLogin)

-----------------------------------------------------------------------------
(* Properties *)

StoreIdsOf(rows) == {r.id : r \in rows}

RECURSIVE Ascending(_)
Ascending(S) ==
  IF S = {} THEN <<>>
  ELSE LET m == CHOOSE x \in S : \A y \in S : x <= y
       IN <<m>> \o Ascending(S \ {m})

(* C2: store_listings leaves every existing row as it is, inserts one row *)
(* per id that was absent, with the current time, never two rows with one *)
(* id, and returns the number of rows it inserted; an id already present  *)
(* (in the table or earlier in the list) is not counted.                  *)
C2_StoreIdempotent ==
  [][(pc = "call" /\ arg.fn = "store_listings" /\ pc' = "return") =>
       /\ \A r \in store : r \in store'
       /\ \A a, b \in store' : a.id = b.id => a = b
       /\ StoreIdsOf(store') = StoreIdsOf(store) \cup Ids(arg.listings)
       /\ \A r \in store' \ store : r.first_seen = now
       /\ ret'.stored = Cardinality(store' \ store)
       /\ ret'.stored = Cardinality(Ids(arg.listings) \ StoreIdsOf(store))]_vars

(* a call that met an id already in the table, stored earlier, under *)
(* another platform, and met an id twice in its list                 *)
C2_Witness ==
  /\ pc = "return" /\ arg.fn = "store_listings"
  /\ \E k \in 1..Len(arg.listings) : \E r \in store :
       /\ r.id = arg.listings[k].id
       /\ r.first_seen < now
       /\ r.platform # arg.listings[k].platform
  /\ \E j, k \in 1..Len(arg.listings) : j < k /\ arg.listings[j].id = arg.listings[k].id
  /\ ret.stored < Len(arg.listings)

HasId(platform, card) == platform = "facebook" \/ card.link

KnownAt(platform, page, seen) ==
  {k \in 1..Len(page) :
     HasId(platform, page[k]) /\ <<Prefix(platform), page[k].n>> \in seen}

(* the index of the first record whose id is in seen, Len(page) + 1 if none *)
FirstKnown(platform, page, seen) ==
  IF KnownAt(platform, page, seen) = {} THEN Len(page) + 1
  ELSE CHOOSE k \in KnownAt(platform, page, seen) :
         \A j \in KnownAt(platform, page, seen) : k <= j

(* the records the adapter turns into a Listing: with a link and parsed     *)
(* without error; for Facebook also with a title that has a furniture       *)
(* keyword and not a repetition of an id earlier on the page                *)
Accepted(platform, page, j) ==
  /\ HasId(platform, page[j]) /\ ~page[j].bad
  /\ platform = "facebook" =>
       page[j].kw /\ \A i \in 1..(j - 1) : page[i].n # page[j].n

ParseReturned == pc = "return" /\ arg.fn = "parse"

(* C3 as stated: the first k records of the page, all of them, are the new *)
(* listings (on pages whose records all have a link and parse).            *)
C3_FirstKRecords ==
  (ParseReturned /\ \A j \in 1..Len(arg.page) : arg.page[j].link /\ ~arg.page[j].bad) =>
    LET k == FirstKnown(arg.platform, arg.page, arg.seen)
    IN /\ ret.listings = [j \in 1..(k - 1) |-> Listing(arg.platform, arg.page[j])]
       /\ ret.early_stopped = (k <= Len(arg.page))

(* C3, amended: the new listings are, in page order, the records before the *)
(* first known one that the adapter accepts; early_stopped tells whether a  *)
(* known record was met.                                                    *)
C3_EarlyStop ==
  ParseReturned =>
    LET k == FirstKnown(arg.platform, arg.page, arg.seen)
        idx == Ascending({j \in 1..(k - 1) : Accepted(arg.platform, arg.page, j)})
    IN /\ ret.listings = [i \in 1..Len(idx) |-> Listing(arg.platform, arg.page[idx[i]])]
       /\ ret.early_stopped = (k <= Len(arg.page))

(* a Facebook page of an off-topic record, a new listing and a known *)
(* record, in this order                                             *)
C3_Witness ==
  /\ ParseReturned /\ arg.platform = "facebook"
  /\ Len(arg.page) = 3
  /\ FirstKnown(arg.platform, arg.page, arg.seen) = 3
  /\ ~arg.page[1].kw
  /\ Len(ret.listings) = 1 /\ ret.early_stopped

-----------------------------------------------------------------------------
(* The polling loop *)

(* C1: a listing that was dispatched and stored is not handed to send_batch *)
(* again in a later cycle.  Stated for the Craigslist adapter, whose search *)
(* asks for no posting date (the Facebook search asks for the last 7 days). *)
C1_NeverReannounced ==
  pc = "send" =>
    \A k \in 1..Len(sb_listings) :
      sb_listings[k].platform = "craigslist" => sb_listings[k].id \notin persisted

(* the reference engine: every fetched page scanned to its end, the records *)
(* whose id is not in seen_ids kept                                         *)
RefIds ==
  UNION {{l.id : l \in {x \in {Parse(scrapers[si], fetched[t].page, {}).listings[k] :
                                 k \in 1..Len(Parse(scrapers[si], fetched[t].page, {}).listings)} :
                          x.id \notin seen_ids}} :
         t \in {u \in 1..Len(fetched) : fetched[u].ok}}

(* C4: get_listings returns the listings the reference engine returns. *)
C4_EarlyStopIsOptimisation ==
  pc = "got" => Ids(new_listings) = RefIds

RECURSIVE Cat(_, _)
Cat(f, t) == IF t > Len(f) THEN <<>> ELSE f[t].listings \o Cat(f, t + 1)

FirstOccurrences(cat) ==
  LET idx == Ascending({k \in 1..Len(cat) : \A j \in 1..(k - 1) : cat[j].id # cat[k].id})
  IN [i \in 1..Len(idx) |-> cat[idx[i]]]

(* C5: during and after get_listings, all_listings holds every id at most  *)
(* once and is the sequence of the first occurrences, in term order and    *)
(* page order, of the listings parsed so far in this call; the accepted-id *)
(* set is the set of its ids (empty when the call starts).                 *)
C5_CrossTermDedupe ==
  pc \in {"scrape", "got"} =>
    /\ \A i, j \in 1..Len(all_listings) :
         all_listings[i].id = all_listings[j].id => i = j
    /\ all_listings = FirstOccurrences(Cat(fetched, 1))
    /\ page_seen_ids = Ids(all_listings)
    /\ pc = "got" => new_listings = all_listings

(* a posting found under both terms and kept once, before a later one *)
C5_Witness ==
  /\ pc = "got" /\ Len(fetched) = NumTerms
  /\ \E a \in 1..Len(fetched[1].listings), b \in 1..Len(fetched[2].listings) :
       /\ fetched[1].listings[a].id = fetched[2].listings[b].id
       /\ new_listings[1] = fetched[1].listings[a]
  /\ Len(new_listings) = 2

(* the page is unseen records followed by at least one known record and *)
(* then known records only                                              *)
UnseenThenKnown(platform, page, seen) ==
  LET k == FirstKnown(platform, page, seen)
  IN /\ k <= Len(page)
     /\ \A j \in k..Len(page) : <<Prefix(platform), page[j].n>> \in seen

UnseenPrefix(platform, page, seen) ==
  [j \in 1..(FirstKnown(platform, page, seen) - 1) |-> Listing(platform, page[j])]

RECURSIVE CatPrefixes(_, _, _, _)
CatPrefixes(platform, f, seen, t) ==
  IF t > Len(f) THEN <<>>
  ELSE UnseenPrefix(platform, f[t].page, seen) \o CatPrefixes(platform, f, seen, t + 1)

AllPagesUnseenThenKnown ==
  /\ Len(fetched) = NumTerms
  /\ \A t \in 1..Len(fetched) :
       fetched[t].ok /\ UnseenThenKnown(scrapers[si], fetched[t].page, seen_ids)

AfterGetListings == pc \in {"got", "send", "send_ret", "store", "tally"}

(* C6 as stated: when every page of the adapter is unseen records followed *)
(* by known ones, the iteration returns the unseen prefixes, every record  *)
(* of them (on pages whose records all parse).                             *)
C6_UnseenPrefix ==
  (/\ AfterGetListings /\ AllPagesUnseenThenKnown
   /\ \A t \in 1..Len(fetched) : \A j \in 1..Len(fetched[t].page) : ~fetched[t].page[j].bad) =>
    new_listings = FirstOccurrences(CatPrefixes(scrapers[si], fetched, seen_ids, 1))

AcceptedPrefix(platform, page, seen) ==
  LET idx == Ascending({j \in 1..(FirstKnown(platform, page, seen) - 1) :
                          Accepted(platform, page, j)})
  IN [i \in 1..Len(idx) |-> Listing(platform, page[idx[i]])]

RECURSIVE CatAccepted(_, _, _, _)
CatAccepted(platform, f, seen, t) ==
  IF t > Len(f) THEN <<>>
  ELSE AcceptedPrefix(platform, f[t].page, seen) \o CatAccepted(platform, f, seen, t + 1)

(* C6, amended: when every page of the adapter is unseen records followed  *)
(* by known ones, the iteration returns the records of the unseen prefixes *)
(* that the adapter accepts (an id once), reports early stop on every      *)
(* page, and after send_batch and store_listings the stored ids of the     *)
(* platform are the snapshot united with the new ids.                      *)
C6_EndToEnd ==
  /\ (AfterGetListings /\ AllPagesUnseenThenKnown) =>
       /\ new_listings = FirstOccurrences(CatAccepted(scrapers[si], fetched, seen_ids, 1))
       /\ \A t \in 1..Len(fetched) : fetched[t].early_stopped
  /\ pc = "tally" =>
       get_seen_ids(store, scrapers[si]) = seen_ids \cup Ids(new_listings)

(* store_listings has returned in an iteration whose pages showed a new *)
(* posting above a known one                                            *)
C6_Witness ==
  /\ pc = "tally" /\ AllPagesUnseenThenKnown
  /\ seen_ids # {} /\ new_listings # <<>>
  /\ \E t \in 1..Len(fetched) :
       Len(fetched[t].page) >= 2 /\ FirstKnown(scrapers[si], fetched[t].page, seen_ids) >= 2
  /\ get_seen_ids(store, scrapers[si]) = seen_ids \cup Ids(new_listings)

(* C7: once send_batch has returned, whatever it returned, the next step of *)
(* the iteration is store_listings on the listings get_listings returned,   *)
(* and when store_listings returns every one of them is in the table.       *)
C7_StoredWhateverSent ==
  [][/\ (pc = "send_ret" /\ pc' # pc) =>
          pc' = "store" /\ new_listings' = new_listings /\ new_listings # <<>>
     /\ (pc = "store" /\ pc' = "tally") =>
          \A k \in 1..Len(new_listings) :
            \E r \in store' : r.id = new_listings[k].id
                              /\ r.platform = new_listings[k].platform]_vars

(* listings stored although none of them was delivered *)
C7_Witness ==
  /\ pc = "tally" /\ sent = 0 /\ new_listings # <<>>
  /\ Ids(new_listings) \subseteq StoreIdsOf(store)
  /\ stored = Len(new_listings)

(* C8: the snapshot is read once per iteration, right before get_listings; *)
(* the table is written only by store_listings after send_batch returned   *)
(* (and by the cleanup after the cycle); so in every state each stored     *)
(* listing has had its dispatch attempt completed.                         *)
C8_SnapshotThenDispatchThenStore ==
  /\ [](\A r \in store : r.id \in dispatched)
  /\ [][/\ pc' = "access" => pc = "snap" /\ seen_ids' = get_seen_ids(store, scrapers[si])
        /\ (pc \in {"access", "scrape", "got", "send", "send_ret", "store"}
            /\ pc' \in {"access", "scrape", "got", "send", "send_ret", "store", "tally"})
             => seen_ids' = seen_ids
        /\ store' # store => pc \in {"store", "summary"}
        /\ (pc' = "store" /\ pc # "store") => pc = "send_ret"]_vars

(* send_batch has returned and store_listings has not run yet *)
C8_Witness ==
  /\ pc = "store" /\ new_listings # <<>>
  /\ Ids(new_listings) \subseteq dispatched
  /\ Ids(new_listings) \cap StoreIdsOf(store) = {}
  /\ store # {}

-----------------------------------------------------------------------------
(* The dispatcher *)

Posts == SelectSeq(http, LAMBDA e : e.kind = "post")

RECURSIVE CatEmbeds(_, _)
CatEmbeds(posts, k) == IF k > Len(posts) THEN <<>> ELSE posts[k].embeds \o CatEmbeds(posts, k + 1)

NoRateLimit == \A k \in 1..Len(http) : http[k].status # "429"

(* C9: listings of one platform with a destination and no 429: ceil(n/10) *)
(* POSTs, of 10 embeds but for the last one, carrying the input in order.  *)
C9_Chunking ==
  (/\ pc = "send_ret" /\ Len(by_platform) = 1
   /\ _get_webhook_url(by_platform[1]) # "" /\ NoRateLimit) =>
    /\ Len(Posts) * MAX_EMBEDS_PER_MESSAGE >= Len(sb_listings)
    /\ Len(Posts) * MAX_EMBEDS_PER_MESSAGE < Len(sb_listings) + MAX_EMBEDS_PER_MESSAGE
    /\ \A k \in 1..Len(Posts) :
         /\ Len(Posts[k].embeds) <= MAX_EMBEDS_PER_MESSAGE
         /\ k < Len(Posts) => Len(Posts[k].embeds) = MAX_EMBEDS_PER_MESSAGE
         /\ Posts[k].url = _get_webhook_url(by_platform[1])
    /\ CatEmbeds(Posts, 1) = Embeds(sb_listings)

(* 23 listings sent as 10, 10, 3 *)
C9_Witness ==
  /\ pc = "send_ret" /\ Len(by_platform) = 1 /\ NoRateLimit
  /\ Len(sb_listings) = 23
  /\ Len(Posts) = 3
  /\ Len(Posts[1].embeds) = 10 /\ Len(Posts[2].embeds) = 10 /\ Len(Posts[3].embeds) = 3

RECURSIVE Delivered(_, _)
Delivered(posts, k) ==
  IF k > Len(posts) THEN 0
  ELSE (IF posts[k].status = "204" THEN Len(posts[k].embeds) ELSE 0) + Delivered(posts, k + 1)

(* C10: send_batch returns the number of listings in the messages answered *)
(* 204, at the first attempt or at the retry after a 429.                  *)
C10_SentCount ==
  pc = "send_ret" =>
    /\ sent = Delivered(Posts, 1)
    /\ 0 <= sent /\ sent <= Len(sb_listings)

(* a batch delivered at the retry, a batch whose retry failed, a batch *)
(* that failed at once                                                 *)
C10_Witness ==
  /\ pc = "send_ret" /\ Len(Posts) = 5
  /\ Posts[1].status = "429" /\ Posts[2].status = "204"
  /\ Posts[3].status = "429" /\ Posts[4].status = "500"
  /\ Posts[5].status = "err"
  /\ sent = MAX_EMBEDS_PER_MESSAGE

-----------------------------------------------------------------------------
(* The cleanup *)

AgeHours(r) == Hours(now) - Hours(r.first_seen)

(* C14: cleanup_old_listings(days) deletes the rows first seen more than   *)
(* days ago and no other row, returns how many it deleted, and with no     *)
(* such row returns 0 and leaves the table as it is.                       *)
C14_Pruning ==
  [][(pc = "call" /\ arg.fn = "cleanup_old_listings" /\ pc' = "return") =>
       /\ store' = {r \in store : AgeHours(r) <= arg.days * 24}
       /\ ret'.count = Cardinality({r \in store : AgeHours(r) > arg.days * 24})
       /\ ret'.count = Cardinality(store) - Cardinality(store')
       /\ (\A r \in store : AgeHours(r) <= arg.days * 24) =>
            store' = store /\ ret'.count = 0]_vars

(* a row older than the window was deleted, a row exactly as old as the *)
(* window was kept                                                       *)
C14_Witness ==
  /\ pc = "return" /\ arg.fn = "cleanup_old_listings" /\ arg.days = RETENTION_DAYS
  /\ ret.count >= 1
  /\ \E r \in store : AgeHours(r) = RETENTION_DAYS * 24

(* the positions inside the try block of one adapter *)
AdapterPcs == {"snap", "access", "scrape", "got", "send", "send_ret", "send_exc",
               "store", "tally"}

(* the step is the handler of the adapter's try block: get_seen_ids,    *)
(* get_listings or store_listings raises, or send_batch has raised      *)
Raises ==
  /\ pc \in {"snap", "access", "send_exc", "store"}
  /\ si' = si + 1

(* C16: an exception of get_seen_ids, get_listings, send_batch or          *)
(* store_listings ends the iteration of that adapter without a write to    *)
(* the table, the loop goes on with the next adapter or, after the last    *)
(* one, with the end of the cycle; no step inside the try block leads to   *)
(* the fatal path.                                                         *)
C16_AdapterIsolation ==
  [][/\ Raises =>
          /\ store' = store
          /\ pc' = IF si < Len(scrapers) THEN "snap" ELSE "summary"
          /\ check_count' = check_count /\ scrapers' = scrapers /\ running' = running
     /\ pc \in AdapterPcs => pc' \in AdapterPcs \cup {"summary"}
     /\ pc = "send_exc" => Raises]_vars

(* in the first cycle store_listings raised for Facebook after send_batch *)
(* had returned, and Craigslist still got its listings stored             *)
C16_Witness ==
  /\ pc = "tally" /\ si = 2 /\ check_count = 1
  /\ \E id \in dispatched \ persisted : id[1] = "fb"
  /\ stored > 0 /\ \E r \in store : r.platform = "craigslist"

(* C17: an exception in the loop outside the try block of an adapter is    *)
(* announced by one call of send_error_message; no cycle is started after  *)
(* it; the next steps are the teardown, where close() is called on every   *)
(* scraper.                                                                *)
C17_FatalPath ==
  /\ [](announced <= 1)
  /\ [][/\ announced' # announced => pc = "fatal" /\ announced' = announced + 1
        /\ pc = "fatal" => pc' = "teardown" /\ announced' = 1
        /\ pc = "teardown" => pc' = "done" /\ closed' = scrapers
        /\ pc \in {"fatal", "teardown", "done"} =>
             /\ pc' \in {"fatal", "teardown", "done"}
             /\ check_count' = check_count /\ store' = store]_vars
  /\ []((pc = "done" /\ announced = 1) => closed = scrapers /\ Len(closed) = 2)

(* the first cycle crashed after its adapters had run: announced once, *)
(* both scrapers closed, no second cycle                               *)
C17_Witness ==
  /\ pc = "done" /\ announced = 1
  /\ closed = <<"facebook", "craigslist">>
  /\ check_count = 1 /\ store # {}

(* C18: once running is false, no further search term and no further *)
(* adapter is started in the cycle.                                  *)
C18_CancellationBoundaries ==
  [][~running =>
       /\ ~(pc = "scrape" /\ ti >= 2 /\ ti' = ti + 1)
       /\ ~(pc = "snap" /\ si >= 2 /\ pc' = "access")]_vars

(* C19: the wait between two cycles is at most CHECK_INTERVAL_SECONDS      *)
(* sleeps of one second, running is looked at before each of them; once    *)
(* running is false no further sleep is begun (the one under way ends), no *)
(* cycle is begun, and the process comes to the teardown.                  *)
C19_InterruptibleSleep ==
  /\ [](slept <= CHECK_INTERVAL_SECONDS)
  /\ [][/\ slept' = slept + 1 => pc = "sleeping" /\ slept < CHECK_INTERVAL_SECONDS
        /\ (pc = "sleep" /\ pc' = "sleeping") => running /\ slept < CHECK_INTERVAL_SECONDS
        /\ (~running /\ pc = "sleep") => pc' \in {"loop", "teardown"}
        /\ ~running => check_count' = check_count]_vars
  /\ ((~running /\ pc \in {"sleep", "sleeping"}) ~> pc = "teardown")

(* the signal came during a sleep in the middle of the wait *)
C19_Witness ==
  /\ ~running /\ pc = "sleep"
  /\ slept > 1 /\ slept < CHECK_INTERVAL_SECONDS - 1
  /\ check_count = 1

ElapsedHours == Hours(now) - Hours(last_cleanup)

(* C15: the table is pruned, and last_cleanup set to the current time, only *)
(* at the end of a cycle and only when at least 24 hours have passed since  *)
(* last_cleanup; at the end of a cycle with less than 24 hours passed the   *)
(* table and last_cleanup stay as they are.                                 *)
C15_CleanupSchedule ==
  [][/\ last_cleanup' # last_cleanup =>
          pc = "summary" /\ ElapsedHours >= 24 /\ last_cleanup' = now
     /\ (\E r \in store : r \notin store') =>
          pc = "summary" /\ ElapsedHours >= 24 /\ last_cleanup' = now
     /\ (pc = "summary" /\ pc' \in {"sleep", "loop"}) =>
          IF ElapsedHours >= 24
          THEN /\ last_cleanup' = now
               /\ store' = {r \in store : AgeHours(r) <= RETENTION_DAYS * 24}
          ELSE last_cleanup' = last_cleanup /\ store' = store]_vars

(* the second cycle ends twelve hours after the cleanup of the first one, *)
(* thirty-six hours after the start: no cleanup                           *)
C15_Witness ==
  /\ pc = "sleep" /\ check_count = 2
  /\ now = 3 /\ last_cleanup = 2
  /\ store # {}

-----------------------------------------------------------------------------
IsPost(k) == k \in 1..Len(http) /\ http[k].kind = "post"

(* the POST at k is the retry of the POST at k - 2 *)
IsRetry(k) ==
  /\ IsPost(k) /\ IsPost(k - 2)
  /\ http[k - 2].status = "429"
  /\ http[k - 1] = Sleep("retry_after")
  /\ http[k].url = http[k - 2].url /\ http[k].embeds = http[k - 2].embeds

(* the batches of the platforms that have a destination *)
DueBatches ==
  UNION {{<<_get_webhook_url(by_platform[p]),
            Embeds(Batch(PlatformListings(sb_listings, by_platform[p]), i))>> :
            i \in {j \in 0..Len(sb_listings) :
                     /\ j % MAX_EMBEDS_PER_MESSAGE = 0
                     /\ j < Len(PlatformListings(sb_listings, by_platform[p]))}} :
         p \in {q \in 1..Len(by_platform) : _get_webhook_url(by_platform[q]) # ""}}

(* C11: a batch is POSTed at most twice; the second POST comes only after *)
(* a 429 on the first and the sleep of retry_after; no status and no      *)
(* transport error of either attempt makes send_batch raise; when         *)
(* send_batch returns every batch of every platform with a destination    *)
(* has been attempted.                                                    *)
C11_RetryOnce ==
  /\ \A j, k \in 1..Len(http) :
       (j < k /\ IsPost(j) /\ IsPost(k) /\ http[j].embeds = http[k].embeds) =>
         k = j + 2 /\ IsRetry(k)
  /\ \A k \in 1..Len(http) :
       http[k] = Sleep("retry_after") =>
         IsPost(k - 1) /\ http[k - 1].status = "429" /\ ~IsRetry(k - 1) /\ IsRetry(k + 1)
  /\ pc = "send_exc" =>
       IsPost(Len(http)) /\ http[Len(http)].status = "429" /\ ~IsRetry(Len(http))
  /\ pc = "send_ret" =>
       \A b \in DueBatches :
         \E k \in 1..Len(http) : IsPost(k) /\ http[k].url = b[1] /\ http[k].embeds = b[2]

(* a batch answered 429 twice, and batches of both platforms after it *)
C11_Witness ==
  /\ pc = "send_ret" /\ Len(by_platform) = 2
  /\ IsRetry(3) /\ http[3].status = "429"
  /\ \E k \in 4..Len(http) : IsPost(k) /\ http[k].url = http[1].url /\ http[k].status = "err"
  /\ \E k \in 4..Len(http) : IsPost(k) /\ http[k].url # http[1].url /\ http[k].status = "204"

Default == IF webhooks.default THEN "wh_default" ELSE ""

Destination(platform) ==
  IF webhooks[platform] THEN "wh_" \o platform ELSE Default

ListingsTo(url) ==
  SelectSeq(sb_listings, LAMBDA l : Destination(l.platform) = url)

(* C12: a listing is POSTed to the webhook of its platform when that is  *)
(* set, otherwise to the default one, and to no other; a platform with   *)
(* neither gets no POST and adds nothing to the count, and the listings  *)
(* of the other platforms are all POSTed.                                *)
C12_Routing ==
  /\ \A k \in 1..Len(http) : IsPost(k) =>
       /\ http[k].url # ""
       /\ \A e \in 1..Len(http[k].embeds) :
            http[k].url = Destination(PlatformOf(http[k].embeds[e]))
  /\ pc = "send_ret" =>
       /\ sent <= Len(sb_listings) - Len(ListingsTo(""))
       /\ \A l \in 1..Len(sb_listings) :
            Destination(sb_listings[l].platform) # "" =>
              \E k \in 1..Len(http) :
                IsPost(k) /\ \E e \in 1..Len(http[k].embeds) :
                               http[k].embeds[e] = sb_listings[l].id

(* listings of two platforms, the first one without destination, the *)
(* second one delivered                                              *)
C12_Witness ==
  /\ pc = "send_ret" /\ Len(by_platform) = 2
  /\ ~webhooks.default
  /\ Destination(by_platform[1]) = "" /\ Destination(by_platform[2]) # ""
  /\ sent = Len(PlatformListings(sb_listings, by_platform[2]))
  /\ sent > 0

(* C13: between two consecutive POSTs of different batches, of one *)
(* platform or of two, send_batch sleeps RATE_LIMIT_DELAY.         *)
C13_Pacing ==
  \A j, k \in 1..Len(http) :
    (/\ j < k /\ IsPost(j) /\ IsPost(k) /\ http[j].embeds # http[k].embeds
     /\ \A m \in (j + 1)..(k - 1) : ~IsPost(m)) =>
      \E m \in (j + 1)..(k - 1) : http[m] = Sleep("RATE_LIMIT_DELAY")

(* C21: wait_for_manual_login returns True, and the session is             *)
(* Authenticated, only when the page its follow-up check has looked at     *)
(* passes the test of _can_access_marketplace: the marketplace reached,    *)
(* no login redirect and no checkpoint in the location.                    *)
C21_FollowUpProbe ==
  [][(pc = "poll" /\ pc' = "scrape") =>
       /\ session' = "Authenticated"
       /\ TestsOf(self_page').can_access]_vars

(* C22 as stated: whenever the session is Unauthenticated at the start of *)
(* a run of the adapter, the access probe is made with a headless browser. *)
C22_ProbeHeadless ==
  (pc = "probe" /\ session = "Unauthenticated") => context = "headless"

(* C22, amended: the probe of the first run is made with a headless        *)
(* browser; the browser becomes visible only in _relaunch_visible, which   *)
(* is run only after a failed probe; a run launches a headless browser     *)
(* only when there is none, so the visible browser of a run that timed out *)
(* is the one the next run probes with.                                    *)
C22_HeadlessUntilProbeFails ==
  /\ []((pc = "probe" /\ check_count = 1) => context = "headless" /\ _headless)
  /\ [][/\ (context' = "visible" /\ context # "visible") => pc = "relaunch"
        /\ pc' = "relaunch" => pc \in {"probe", "relaunch"}
        /\ (pc = "probe" /\ pc' = "relaunch") =>
             self_page' = self_page \/ ~TestsOf(self_page').can_access
        /\ (pc = "poll" /\ pc' = "got") =>
             context' = "visible" /\ session' = "Unauthenticated"
        /\ (pc \in {"call", "got", "raised"} /\ pc' = "probe") =>
             context' = IF context = "none" THEN "headless" ELSE context]_vars

(* the run after a manual-login timeout probes with the visible browser *)
C22_Witness ==
  /\ pc = "probe" /\ check_count = 2
  /\ session = "Unauthenticated" /\ context = "visible" /\ ~_headless

(* C23: each context.close() of the Facebook scraper comes right after an  *)
(* attempt to save the storage state, each attempt is followed by the      *)
(* close whether it failed or not, and the context changes only with such  *)
(* a pair; _relaunch_visible and close() with a context make one pair.     *)
C23_FlushBeforeClose ==
  /\ [](\A k \in 1..Len(ctx_log) :
          /\ ctx_log[k].op = "close" =>
               k > 1 /\ ctx_log[k - 1].op = "storage_state"
          /\ ctx_log[k].op = "storage_state" =>
               k < Len(ctx_log) /\ ctx_log[k + 1].op = "close")
  /\ [][/\ (context # "none" /\ pc = "relaunch") =>
             Len(ctx_log') = Len(ctx_log) + 2
        /\ (context # "none" /\ pc # "closed" /\ pc' = "closed") =>
             Len(ctx_log') = Len(ctx_log) + 2
        /\ (context # "none" /\ context' # context) =>
             /\ Len(ctx_log') = Len(ctx_log) + 2
             /\ ctx_log'[Len(ctx_log')] = CloseEv(TRUE)]_vars

(* the save failed in _relaunch_visible and again in close(), and both *)
(* times the context was closed                                        *)
C23_Witness ==
  /\ pc = "closed" /\ context = "none"
  /\ ctx_log = <<SaveEv(FALSE), CloseEv(TRUE), SaveEv(FALSE), CloseEv(TRUE)>>

(* C24: _extract_id gives a posting the same id in any two runs of the   *)
(* program, also when the address has no posting number and the hash is  *)
(* taken, and the id begins with the prefix of its platform, which keeps *)
(* the ids of the two platforms apart.                                   *)
C24_StableIds ==
  (pc = "return" /\ arg.fn = "_extract_id") =>
    /\ ret.first = ret.second
    /\ StartsWith(ret.first, IF arg.platform = "craigslist" THEN S_cl ELSE S_fb)
    /\ S_cl # S_fb /\ Len(S_cl) = Len(S_fb)

(* C25: the embed of _create_embed has the key "thumbnail" exactly when  *)
(* image_url is a non-empty str that begins with http:// or https://,    *)
(* and then it holds that address; the same for the key "url" and url.   *)
C25_EmbedSanitation ==
  (pc = "return" /\ arg.fn = "_create_embed") =>
    LET Http(x) == /\ x.some /\ x.s # <<>>
                   /\ \/ SubSeq(x.s, 1, Len(S_http)) = S_http
                      \/ SubSeq(x.s, 1, Len(S_https)) = S_https
    IN /\ "thumbnail" \in DOMAIN ret <=> Http(arg.listing.image_url)
       /\ "thumbnail" \in DOMAIN ret =>
            ret["thumbnail"] = [url |-> arg.listing.image_url.s]
       /\ "url" \in DOMAIN ret <=> Http(arg.listing.url)
       /\ "url" \in DOMAIN ret => ret["url"] = arg.listing.url.s

(* a data: image and an https address: the embed has a url, no thumbnail *)
C25_Witness ==
  /\ pc = "return" /\ arg.fn = "_create_embed"
  /\ StartsWith(arg.listing.image_url.s, S_data)
  /\ DOMAIN ret = {"title", "url", "description"}

(* C26: the image_url of a Listing built by a parser is None whenever the  *)
(* reference taken from the card is missing, empty, a placeholder, or not *)
(* an http:// or https:// address.                                        *)
C26_ImageDropped ==
  (pc = "return" /\ arg.fn = "image_url") =>
    LET ref == Extracted(arg)
    IN (\/ ~Truthy(ref)
        \/ Contains(Lower(ref.s), S_blank)
        \/ ~(StartsWith(ref.s, S_http) \/ StartsWith(ref.s, S_https)))
       => ret = None

(* C27: send_startup_message and send_error_message POST once to the   *)
(* destination of craigslist and once to that of facebook, each when   *)
(* it is set, whatever the other one answered; they return, and the    *)
(* result is true exactly when one of the POSTs was answered 204.      *)
C27_BestEffortAnnouncement ==
  /\ pc \in {"call", "return"}
  /\ pc = "return" =>
       /\ [k \in 1..Len(http) |-> http[k].url]
            = SelectSeq(<<Destination("craigslist"), Destination("facebook")>>,
                        LAMBDA u : u # "")
       /\ \A k \in 1..Len(http) :
            /\ http[k].kind = "post"
            /\ http[k].embeds = <<IF arg.fn = "send_startup_message"
                                  THEN "CouchFinder Started"
                                  ELSE "CouchFinder Error">>
       /\ ret.success <=> \E k \in 1..Len(http) : http[k].status = "204"

(* the first destination fails, the second one is still tried and answers *)
C27_Witness ==
  /\ pc = "return" /\ arg.fn = "send_error_message"
  /\ Len(http) = 2 /\ http[1].url # http[2].url
  /\ http[1].status = "err" /\ http[2].status = "204"
  /\ ret.success

(* all_listings grows at its end only *)
IsPrefix(a, b) == Len(a) <= Len(b) /\ SubSeq(b, 1, Len(a)) = a

(* C28: once get_listings is in its loop, every search term is fetched    *)
(* once and in order, whether the term before stopped early or raised; a *)
(* term that raises adds no listing and takes none away; the call ends   *)
(* after the last term and returns all_listings.                         *)
C28_AllTermsScanned ==
  /\ [](pc = "scrape" => ti \in SEARCH_TERMS /\ Len(fetched) = ti - 1)
  /\ []((pc = "got" /\ fetched # <<>>) => Len(fetched) = NumTerms)
  /\ [][pc = "scrape" =>
          /\ pc' \in {"scrape", "got"}
          /\ ti' \in {ti, ti + 1}
          /\ ti' = ti => fetched' = fetched /\ all_listings' = all_listings /\ pc' = pc
          /\ ti' = ti + 1 =>
               /\ Len(fetched') = ti /\ IsPrefix(fetched, fetched')
               /\ IF fetched'[ti].ok
                  THEN fetched'[ti].page = site[scrapers[si]][ti]
                  ELSE fetched'[ti].listings = <<>> /\ all_listings' = all_listings
               /\ IsPrefix(all_listings, all_listings')
               /\ pc' = IF ti = NumTerms THEN "got" ELSE "scrape"
               /\ pc' = "got" => new_listings' = all_listings']_vars

(* the first term stopped early with a new listing, the second one raised: *)
(* both were fetched, the listing of the first is returned                 *)
C28_Witness ==
  /\ pc = "got" /\ Len(fetched) = NumTerms
  /\ fetched[1].ok /\ fetched[1].early_stopped /\ fetched[1].listings # <<>>
  /\ ~fetched[NumTerms].ok
  /\ new_listings = fetched[1].listings

(* the step is the daily cleanup of run_monitor *)
CleanupStep == pc = "summary" /\ hours_since_cleanup >= CLEANUP_INTERVAL_HOURS

(* C29: in every step other than the cleanup every row of the table stays *)
(* as it is, with its platform and first_seen, and no second row with the *)
(* id of an existing row is added.                                        *)
C29_GrowsMonotonically ==
  [][~CleanupStep =>
       /\ \A r \in store : r \in store'
       /\ StoreIdsOf(store) \subseteq StoreIdsOf(store')
       /\ \A r \in store : \A q \in store' : q.id = r.id => q = r]_vars

(* store_listings has added a row to a table that held the row of an *)
(* earlier cycle, after a cleanup had run: the older row is still there *)
C29_Witness ==
  /\ pc = "tally" /\ last_cleanup > 0
  /\ \E r \in store : r.first_seen < now /\ r.id \notin Ids(new_listings)
  /\ \E r \in store : r.first_seen = now /\ r.id \in Ids(new_listings)

(* SystemExit was raised while the finally block was running *)
ForcedInFinally ==
  \E k \in 1..Len(raised) : raised[k].exc = "SystemExit" /\ raised[k].at = "finally"

(* C30 as stated: whichever way the polling loop was left, close() has been *)
(* called on every scraper when run_monitor ends.                          *)
C30_ReleaseOnEveryExit == pc = "done" => closed = scrapers

(* C30: the finally block is entered on every way out of the polling loop  *)
(* (stop flag, KeyboardInterrupt, exception, SystemExit), and unless the   *)
(* signal handler raises SystemExit while it runs, it calls close() on     *)
(* every scraper, in order, whichever of the close() calls raise.          *)
C30_ReleaseUnlessForced ==
  /\ []((pc = "done" /\ ~ForcedInFinally) => closed = scrapers)
  /\ [](pc # "done" => closed = <<>>)
  /\ [](close_raised \subseteq {closed[k] : k \in 1..Len(closed)})
  /\ [][(pc \notin {"start", "done"} /\ pc' = "done") => pc = "teardown"]_vars
  /\ [][pc = "teardown" =>
          /\ pc' \in {"teardown", "done"}
          /\ (pc' = "done" /\ raised' = raised) => closed' = scrapers]_vars

(* the loop was left by a KeyboardInterrupt in the second cycle, close() of *)
(* the first scraper raised, close() of the second was still called         *)
C30_Witness ==
  /\ pc = "done" /\ check_count = 2 /\ announced = 0
  /\ Len(raised) = 1 /\ raised[1].exc = "KeyboardInterrupt"
  /\ close_raised = {scrapers[1]}
  /\ closed = scrapers /\ Len(closed) = 2

-----------------------------------------------------------------------------
(* The parsers, record by record *)

(* the record has no usable link, or parsing it raises *)
Failing(platform, rec) == ~HasId(platform, rec) \/ rec.bad

(* the id of the record, if it has one, is in seen *)
Known(platform, rec, seen) ==
  HasId(platform, rec) /\ <<Prefix(platform), rec.n>> \in seen

(* C31: a record without a usable link, or one whose parsing raises, adds *)
(* no listing and does not set early_stopped; the listings taken from the *)
(* records before it are kept, and the record after it is examined: if it *)
(* is one the adapter accepts, it is the next listing of the result.      *)
C31_RecordIsolation ==
  ParseReturned =>
    \A j \in 1..Len(arg.page) :
      LET before == Parse(arg.platform, SubSeq(arg.page, 1, j - 1), arg.seen)
          upto == Parse(arg.platform, SubSeq(arg.page, 1, j), arg.seen)
          n == Len(before.listings)
      IN (/\ Failing(arg.platform, arg.page[j])
          /\ ~Known(arg.platform, arg.page[j], arg.seen)
          /\ ~before.early_stopped) =>
           /\ upto = before
           /\ IsPrefix(before.listings, ret.listings)
           /\ ret.early_stopped =>
                \E i \in (j + 1)..Len(arg.page) : Known(arg.platform, arg.page[i], arg.seen)
           /\ (/\ j < Len(arg.page)
               /\ Accepted(arg.platform, arg.page, j + 1)
               /\ ~Known(arg.platform, arg.page[j + 1], arg.seen)) =>
                /\ Len(ret.listings) > n
                /\ ret.listings[n + 1] = Listing(arg.platform, arg.page[j + 1])

(* a Craigslist page of a new card, a card whose parsing raises and another *)
(* new card: two listings, no early stop                                    *)
C31_Witness ==
  /\ ParseReturned /\ arg.platform = "craigslist"
  /\ Len(arg.page) = 3 /\ arg.seen # {}
  /\ ~Failing("craigslist", arg.page[1])
  /\ arg.page[2].link /\ arg.page[2].bad
  /\ ~Failing("craigslist", arg.page[3])
  /\ Len(ret.listings) = 2 /\ ~ret.early_stopped

TitleReturned == pc = "return" /\ arg.fn = "title"

(* C32 as stated: the title of every listing the Facebook parser yields *)
(* has an allow-list keyword in it.                                     *)
C32_YieldedTitleHasKeyword ==
  (TitleReturned /\ arg.platform = "facebook" /\ ret.step = "append") =>
    HasKeyword(ret.title.s)

(* C32: a Facebook record is yielded only if the title extracted from its *)
(* card, before it is cut to its first 200 characters, has an allow-list  *)
(* keyword in it, in any case of the letters; a record that fails the     *)
(* test is passed over, the loop goes on and early_stopped is not set; a  *)
(* record whose id is in the seen set ends the loop whatever its title.   *)
C32_RelevanceFilter ==
  (TitleReturned /\ arg.platform = "facebook") =>
    LET title == FBTitle(arg.card, arg.spans)
    IN /\ ret.step = "append" =>
            /\ \E k \in 1..Len(FURNITURE_KEYWORDS) :
                 Contains(Lower(title), FURNITURE_KEYWORDS[k])
            /\ ret.title = Str(Take(title, TitleLimit))
       /\ (~arg.in_page /\ ~arg.known /\ ~HasKeyword(title)) =>
            ret.step = "continue" /\ ~ret.early_stopped
       /\ (~arg.in_page /\ arg.known) => ret.step = "break" /\ ret.early_stopped
       /\ (~arg.in_page /\ ~arg.known /\ HasKeyword(title)) => ret.step = "append"

(* a new record with a price and a title longer than the limit whose    *)
(* keyword lies across the limit: yielded, with a title of 200 characters *)
(* that has no keyword left in it                                        *)
C32_Witness ==
  /\ TitleReturned /\ arg.platform = "facebook"
  /\ arg.spans = <<T_price, T_long_end>>
  /\ ret.step = "append" /\ Len(ret.title.s) = TitleLimit
  /\ HasKeyword(T_long_end) /\ ~HasKeyword(ret.title.s)

-----------------------------------------------------------------------------
(* The Facebook session, continued *)

(* the location has a login-redirect or an access-checkpoint marker *)
HardBlock(p) ==
  Contains(Lower(p.url), S_slash_login) \/ Contains(Lower(p.url), S_checkpoint)

(* C33: the session becomes AwaitingManualLogin, and the browser is       *)
(* relaunched for a manual login, only when the probe has found a login   *)
(* or checkpoint marker in the location it arrived at.                    *)
C33_FallbackOnlyOnMarker ==
  [][(session # "AwaitingManualLogin" /\ session' = "AwaitingManualLogin") =>
       /\ pc = "probe" /\ pc' = "relaunch"
       /\ HardBlock(self_page')]_vars

-----------------------------------------------------------------------------
(* The title of a Listing, continued *)

(* the text the Craigslist parser takes for the title of a card *)
CLText == IF arg.label.some THEN Strip(arg.label.s) ELSE Strip(arg.link_text)

(* C34: the title of every Listing a parser builds has at least one and at *)
(* most 200 characters: it is the text taken from the record if that has   *)
(* no more than 200 characters, its first 200 characters if it has more,   *)
(* and on Craigslist the sentinel if the text is empty.                    *)
C34_TitleBounded ==
  (TitleReturned /\ ret.step = "append") =>
    /\ ret.title.some
    /\ Len(ret.title.s) >= 1 /\ Len(ret.title.s) <= TitleLimit
    /\ arg.platform = "craigslist" =>
         /\ CLText = <<>> => ret.title.s = CL_SENTINEL
         /\ CLText # <<>> =>
              /\ IsPrefix(ret.title.s, CLText)
              /\ Len(CLText) <= TitleLimit => ret.title.s = CLText
    /\ arg.platform = "facebook" =>
         /\ IsPrefix(ret.title.s, FBTitle(arg.card, arg.spans))
         /\ Len(FBTitle(arg.card, arg.spans)) <= TitleLimit =>
              ret.title.s = FBTitle(arg.card, arg.spans)

(* a Craigslist card whose label has 202 characters: the title of the *)
(* Listing is the first 200 of them                                   *)
C34_Witness ==
  /\ TitleReturned /\ arg.platform = "craigslist"
  /\ arg.label = Str(T_long_end)
  /\ Len(ret.title.s) = TitleLimit /\ ret.title.s # T_long_end
  /\ IsPrefix(ret.title.s, T_long_end)

-----------------------------------------------------------------------------
(* The polling loop, continued *)

(* C35: the list get_listings(seen_ids) returns has no id of seen_ids and *)
(* no id twice; when the loop calls store_listings with it, no id of the  *)
(* list is in the table, every listing is inserted, and the count         *)
(* returned is the length of the list.                                    *)
C35_AllHandedOverAreStored ==
  /\ [](/\ Ids(new_listings) \cap seen_ids = {}
        /\ \A i, j \in 1..Len(new_listings) :
             new_listings[i].id = new_listings[j].id => i = j)
  /\ [][(pc = "store" /\ pc' = "tally") =>
          /\ Ids(new_listings) \cap StoreIdsOf(store) = {}
          /\ stored' = Len(new_listings)
          /\ Cardinality(store') = Cardinality(store) + Len(new_listings)]_vars

(* the second cycle: a known id in the table stops both pages, a new   *)
(* posting is found under both terms, handed over once and stored once *)
C35_Witness ==
  /\ pc = "tally" /\ check_count = 2 /\ seen_ids # {}
  /\ Len(fetched) = NumTerms
  /\ fetched[1].early_stopped /\ fetched[NumTerms].early_stopped
  /\ \E a \in 1..Len(fetched[1].listings) :
       \E b \in 1..Len(fetched[NumTerms].listings) :
         fetched[1].listings[a].id = fetched[NumTerms].listings[b].id
  /\ Len(new_listings) = 1 /\ stored = 1

(* send_batch or store_listings is running, or has just returned *)
InSendOrStore(p) == p \in {"send", "send_exc", "send_ret", "store", "tally"}

(* C36: after get_listings has returned the empty list the loop goes to    *)
(* the next adapter: send_batch and store_listings run only for a list     *)
(* that is not empty.  A POST is made only inside such a send_batch, and   *)
(* the table changes only in such a store_listings or in the cleanup that  *)
(* is due: a cycle whose adapters all return the empty list, with no       *)
(* cleanup due, makes no POST and leaves the table as it was.              *)
C36_EmptyIsNoWork ==
  [][/\ (pc = "got" /\ new_listings = <<>>) =>
          /\ pc' \in {"got", "snap", "summary"}
          /\ store' = store /\ http' = <<>> /\ dispatched' = dispatched
     /\ InSendOrStore(pc') => new_listings' # <<>>
     /\ Len(http') > Len(http) =>
          pc = "send" /\ sb_listings = new_listings /\ new_listings # <<>>
     /\ store' # store =>
          \/ pc = "store" /\ new_listings # <<>>
          \/ CleanupStep]_vars

(* the second cycle, with rows in the table and no cleanup due: the last *)
(* adapter has scanned both terms and returns the empty list, and no     *)
(* listing has been counted in the cycle                                 *)
C36_Witness ==
  /\ pc = "got" /\ check_count = 2 /\ si = Len(scrapers)
  /\ Len(fetched) = NumTerms /\ fetched[1].early_stopped
  /\ new_listings = <<>> /\ total_new = 0
  /\ store # {} /\ ~(hours_since_cleanup >= CLEANUP_INTERVAL_HOURS)

-----------------------------------------------------------------------------
(* The Playwright handle *)

(* close() has been called on the context the Facebook scraper holds, if *)
(* it holds one                                                          *)
FBContextClosed ==
  context = "none" \/ (ctx_log # <<>> /\ ctx_log[Len(ctx_log)].op = "close")

-----------------------------------------------------------------------------
(* The start of run_monitor with any of the three webhook URLs set or not  *)
(* and with the liveness test of the webhooks answered either way.         *)

WebhookUrls == {"wh_default", "wh_craigslist", "wh_facebook"}

(* notifier.test_webhook: up holds the URLs that answer the GET with 200 *)
test_webhook(up) ==
  \E platform \in {"craigslist", "facebook"} :
    /\ _get_webhook_url(platform) # ""
    /\ _get_webhook_url(platform) \in up

(* run_monitor up to the loop; ret keeps what test_webhook returned *)
StartTested ==
  /\ pc = "start"
  /\ IF ~webhooks.craigslist /\ ~webhooks.facebook
     THEN pc' = "done" /\ UNCHANGED <<scrapers, last_cleanup, ret>>
     ELSE /\ \E up \in SUBSET WebhookUrls :
               ret' = [fn |-> "test_webhook", ok |-> test_webhook(up)]
          /\ scrapers' = <<"facebook", "craigslist">>
          /\ last_cleanup' = now
          /\ pc' = "loop"
  /\ UNCHANGED <<envVars, webhooks, store, running, check_count, total_new, arg>>
  /\ UNCHANGED <<iterVars, scrapeVars, sendVars, ghostVars>>
  /\ UNCHANGED <<exitVars, waitVars, browserVars>>

InitStart ==
  /\ site = [p \in Platforms |-> [t \in SEARCH_TERMS |-> <<>>]]
  /\ next_native = 1
  /\ webhooks \in Configs
  /\ store = {}
  /\ now = 0
  /\ running = TRUE
  /\ pc = "start"
  /\ Locals
  /\ arg = NoArg /\ ret = NoArg

NextStart ==
  \/ StartTested \/ LoopHead \/ Snapshot \/ GetListingsEnter \/ ScrapeTerm
  \/ Got \/ Summary \/ SleepCheck \/ SleepOne \/ Fatal \/ Teardown
  \/ signal_handler

SpecStart == InitStart /\ [][NextStart]_vars

(* a platform whose notifications have a destination under _get_webhook_url *)
Resolvable == \E platform \in Platforms : _get_webhook_url(platform) # ""

(* C38: run_monitor enters the polling loop whenever some platform has a   *)
(* destination under the routing rule of the dispatcher, the default       *)
(* webhook included, whatever the liveness test of the webhooks said.      *)
C38_LoopWheneverResolvable ==
  [][(pc = "start" /\ pc' # "start" /\ Resolvable) => pc' = "loop"]_vars

-----------------------------------------------------------------------------
(* C39: the shutdown signal works in two steps.  The first signal sets     *)
(* running to false and nothing else, so the cycle in progress goes on and *)
(* the scrapers are closed at the end; a signal that finds running false   *)
(* raises SystemExit, after which no work of the loop is done; and running *)
(* never goes back from false to true.                                     *)
SystemExits == {k \in 1..Len(raised) : raised[k].exc = "SystemExit"}

C39_TwoStepShutdown ==
  /\ [][(running /\ ~running') =>
          /\ pc' = pc /\ raised' = raised /\ closed' = closed
          /\ store' = store /\ check_count' = check_count
          /\ UNCHANGED <<iterVars, scrapeVars, sendVars, waitVars>>]_vars
  /\ [][(~running /\ ~MainThread) =>
          /\ raised' = Append(raised, [exc |-> "SystemExit", at |-> Block])
          /\ pc' \in {"teardown", "done"}]_vars
  /\ [][(raised' # raised) => ~running]_vars
  /\ [](SystemExits # {} => pc \in {"teardown", "done"})
  /\ []((pc = "done" /\ raised = <<>>) => closed = scrapers)
  /\ [][~running => ~running']_vars

(* a second signal during the wait between two cycles ended the process, *)
(* after a first one had been taken during the scrape of a cycle         *)
C39_Witness ==
  /\ pc = "done" /\ ~running
  /\ raised = <<[exc |-> "SystemExit", at |-> "try"]>>
  /\ check_count = 1 /\ slept > 0
  /\ scrapers # <<>> /\ closed = scrapers

====
